---- MODULE Spec2Model ----
(***************************************************************************)
(* Model of the time-tracker activity collector                            *)
(* (src/src/time_tracker/collector.py) together with the title             *)
(* normalisation it calls (normalization.py), the store it writes (db.py)  *)
(* and the handlers of the serving layer that read and edit the store      *)
(* (webapp.py).                                                            *)
(*                                                                         *)
(* Spec is the sampler's loop, LiveSpec the loop under fair scheduling     *)
(* with writes that succeed, LockSpec the collector's methods called from  *)
(* several threads, ClockSpec the same methods under a clock that steps    *)
(* back, RunnerSpec the CollectorRunner, ApiSpec the overview and PATCH    *)
(* handlers, UpdateSpec the PATCH handler on every request body,           *)
(* ResolverSpec the project resolver, NormalizeSpec the title normaliser,  *)
(* SummarySpec the daily summaries (webapp.py, reporting.py) and           *)
(* SettingsSpec the settings the commands build (config.py, cli.py).       *)
(*                                                                         *)
(* Time is an integer number of ticks.  Window titles are sequences of     *)
(* tokens: a token is a word, a whitespace character " ", or one of the    *)
(* punctuation characters "-" and "|".                                     *)
(***************************************************************************)
EXTENDS Integers, Sequences, FiniteSets, TLC

\* ------------------------------------------------------------------ bounds
\* Last tick of the clock.
MaxTime == 3
\* Largest number of samples one run of the loop takes.
MaxSamples == 3
\* Largest flush_interval (in ticks) a run is configured with.
MaxFlushInterval == 2
\* Largest number of calls the threads of LockSpec make.
MaxCalls == 3
\* Largest number of PATCH requests in a behaviour of ApiSpec or UpdateSpec.
MaxUpdates == 1
\* Ticks in one day: day d is the ticks d * TicksPerDay .. (d + 1) * TicksPerDay - 1.
TicksPerDay == 2
\* Largest number of fragments a raw window title is put together from.
MaxParts == 3
\* Largest number of events in the stores the day queries are run on.
MaxEvents == 4
\* Largest --interval (seconds), --idle-threshold (minutes) and
\* --flush-interval (seconds) a command is run with.
MaxSampleSeconds == 6
MaxIdleMinutes == 3
MaxFlushSeconds == 31

\* Optional[T]: None is the empty sequence, a present value x is <<x>>.
None == << >>
Some(x) == <<x>>
The(o) == o[1]

\* ------------------------------------------------- normalization.py
\* _BROWSER_SUFFIXES: executable name -> suffix strings (the model keeps the
\* chrome.exe and msedge.exe rows of the table).
_BROWSER_SUFFIXES(p) ==
    CASE p = "msedge.exe" -> << <<" ", "-", " ", "Microsoft", " ", "Edge">> >>
      [] p = "chrome.exe" -> << <<" ", "-", " ", "Google", " ", "Chrome">> >>
      [] OTHER -> << >>

\* str.lower() on the process names and words of the model.
Lower(w) ==
    CASE w = "Chrome.EXE" -> "chrome.exe"
      [] w = "And" -> "and"
      [] w = "Pages" -> "pages"
      [] OTHER -> w

IsSpace(c) == c = " "
IsDigits(c) == c \in {"3", "12"}

RECURSIVE LStrip(_, _)
LStrip(s, chars) ==
    IF s # << >> /\ Head(s) \in chars THEN LStrip(Tail(s), chars) ELSE s

RECURSIVE RStrip(_, _)
RStrip(s, chars) ==
    IF s # << >> /\ s[Len(s)] \in chars
    THEN RStrip(SubSeq(s, 1, Len(s) - 1), chars)
    ELSE s

\* str.strip(chars)
Strip(s, chars) == LStrip(RStrip(s, chars), chars)

\* str.endswith(suffix)
EndsWith(s, suffix) ==
    /\ Len(s) >= Len(suffix)
    /\ SubSeq(s, Len(s) - Len(suffix) + 1, Len(s)) = suffix

\* Number of whitespace tokens at the front of s (the greedy match of \s+).
RECURSIVE SpaceRun(_)
SpaceRun(s) ==
    IF s # << >> /\ IsSpace(Head(s)) THEN 1 + SpaceRun(Tail(s)) ELSE 0

Drop(s, n) == SubSeq(s, n + 1, Len(s))

\* Length of the match of _EXTRA_TAB_COUNT_PATTERN,
\*   \s+and\s+\d+\s+more\s+pages?   (re.IGNORECASE),
\* at the front of s, 0 when it does not match there.
TabCountMatch(s) ==
    LET n1 == SpaceRun(s)
        s1 == Drop(s, n1)
        s2 == Drop(s1, 1)
        n2 == SpaceRun(s2)
        s3 == Drop(s2, n2)
        s4 == Drop(s3, 1)
        n3 == SpaceRun(s4)
        s5 == Drop(s4, n3)
        s6 == Drop(s5, 1)
        n4 == SpaceRun(s6)
        s7 == Drop(s6, n4)
    IN  IF /\ n1 >= 1 /\ s1 # << >> /\ Lower(Head(s1)) = "and"
           /\ n2 >= 1 /\ s3 # << >> /\ IsDigits(Head(s3))
           /\ n3 >= 1 /\ s5 # << >> /\ Lower(Head(s5)) = "more"
           /\ n4 >= 1 /\ s7 # << >> /\ Lower(Head(s7)) \in {"page", "pages"}
        THEN n1 + 1 + n2 + 1 + n3 + 1 + n4 + 1
        ELSE 0

\* _EXTRA_TAB_COUNT_PATTERN.sub("", value): every non-overlapping match,
\* leftmost first, is removed.
RECURSIVE SubTabCount(_)
SubTabCount(s) ==
    IF s = << >> THEN << >>
    ELSE LET n == TabCountMatch(s)
         IN  IF n > 0 THEN SubTabCount(Drop(s, n))
             ELSE <<Head(s)>> \o SubTabCount(Tail(s))

_strip_tab_count(value) == Strip(SubTabCount(value), {" ", "-", "|"})

\* re.sub(r"\s{2,}", " ", s): a run of two or more whitespace characters
\* becomes one space.
RECURSIVE CollapseSpaces(_)
CollapseSpaces(s) ==
    IF s = << >> THEN << >>
    ELSE LET n == SpaceRun(s)
         IN  IF n >= 2 THEN <<" ">> \o CollapseSpaces(Drop(s, n))
             ELSE <<Head(s)>> \o CollapseSpaces(Tail(s))

\* `x or None` for a string x.
OrNone(s) == IF s = << >> THEN None ELSE Some(s)

\* The for loop over the suffixes of a browser: the first suffix the title
\* ends with is cut off, followed by rstrip(" -").
RECURSIVE StripSuffix(_, _)
StripSuffix(s, suffixes) ==
    IF suffixes = << >> THEN s
    ELSE IF EndsWith(s, Head(suffixes))
         THEN RStrip(SubSeq(s, 1, Len(s) - Len(Head(suffixes))), {" ", "-"})
         ELSE StripSuffix(s, Tail(suffixes))

normalize_window_title(process_name, window_title) ==
    IF window_title = None \/ The(window_title) = << >> THEN None
    ELSE LET normalized == Strip(The(window_title), {" "})
         IN  IF process_name = None \/ The(process_name) = ""
             THEN OrNone(normalized)
             ELSE OrNone(Strip(CollapseSpaces(_strip_tab_count(
                     StripSuffix(normalized,
                                 _BROWSER_SUFFIXES(Lower(The(process_name)))))),
                     {" "}))

\* ------------------------------------------------------ models.py
\* ActivityEvent(start_time, end_time, process_name, window_title, is_idle)
ActivityEvent(start, end, process_name, window_title, is_idle) ==
    [start_time |-> start, end_time |-> end, process_name |-> process_name,
     window_title |-> window_title, is_idle |-> is_idle]

\* ---------------------------------------------------------- db.py
\* The row insert_events binds for one event.  DATETIME_FMT is a fixed-width
\* format down to the microsecond, the resolution of a datetime, so a
\* timestamp is kept as the tick it formats; is_idle is stored as 1 or 0.
EventRow(event) ==
    [start_time |-> event.start_time, end_time |-> event.end_time,
     process_name |-> event.process_name, window_title |-> event.window_title,
     is_idle |-> IF event.is_idle THEN 1 ELSE 0]

RECURSIVE EventRows(_)
EventRows(events) ==
    IF events = << >> THEN << >>
    ELSE <<EventRow(Head(events))>> \o EventRows(Tail(events))

\* insert_events on a connection opened with isolation_level=None: executemany
\* runs one INSERT per event, each committed on its own.  written is the number
\* of rows inserted before the statement raised (Len(events) when none did).
insert_events(rows, events, written) ==
    rows \o SubSeq(EventRows(events), 1, written)

\* ------------------------------------------------------ collector.py
\* WindowsIdleDetector.is_idle: the outcome of the idle query is "idle",
\* "active" or "error"; an error is logged and answered False.
is_idle(query) == query = "idle"

\* WindowsActiveWindowProbe.get_active_window.  window is None when there is
\* no foreground window, else [text, name]: the window's text and the name of
\* its process; lookup_ok is FALSE when psutil cannot look the process up.
get_active_window(window, lookup_ok) ==
    IF window = None THEN [process_name |-> None, window_title |-> None]
    ELSE [process_name |-> IF lookup_ok THEN Some(The(window).name) ELSE None,
          window_title |-> OrNone(Strip(The(window).text, {" "}))]

\* Mutant of _matches: equality that is not null-aware (absent never equals
\* absent, as in SQL).
_matches_null_unaware(event, process_name, window_title, is_idle_) ==
    /\ event.is_idle = is_idle_
    /\ process_name # None /\ event.process_name = process_name
    /\ window_title # None /\ event.window_title = window_title

\* ActivityCollector._matches
_matches(event, process_name, window_title, is_idle_) ==
    /\ event.is_idle = is_idle_
    /\ event.process_name = process_name
    /\ event.window_title = window_title

\* Mutant of _create_or_extend_event: the superseded event is buffered as it
\* is, its end_time left at the last matching sample.
_create_or_extend_event_stale_end(c, timestamp, process_name, window_title, is_idle_) ==
    IF /\ c.current_event # None
       /\ _matches(The(c.current_event), process_name, window_title, is_idle_)
    THEN [c EXCEPT !.current_event =
              Some([The(c.current_event) EXCEPT !.end_time = timestamp])]
    ELSE [current_event |->
              Some(ActivityEvent(timestamp, timestamp, process_name,
                                 window_title, is_idle_)),
          pending |->
              IF c.current_event # None
              THEN Append(c.pending, The(c.current_event))
              ELSE c.pending]

\* Mutant of _create_or_extend_event: the superseded event is put at the
\* front of the buffer.
_create_or_extend_event_prepend(c, timestamp, process_name, window_title, is_idle_) ==
    IF /\ c.current_event # None
       /\ _matches(The(c.current_event), process_name, window_title, is_idle_)
    THEN [c EXCEPT !.current_event =
              Some([The(c.current_event) EXCEPT !.end_time = timestamp])]
    ELSE [current_event |->
              Some(ActivityEvent(timestamp, timestamp, process_name,
                                 window_title, is_idle_)),
          pending |->
              IF c.current_event # None
              THEN <<[The(c.current_event) EXCEPT !.end_time = timestamp]>>
                   \o c.pending
              ELSE c.pending]

\* Mutant of _create_or_extend_event: on a change of state the open event's
\* object is reused for the new event, so the element just appended to the
\* buffer is the open event itself.
_create_or_extend_event_aliased(c, timestamp, process_name, window_title, is_idle_) ==
    IF /\ c.current_event # None
       /\ _matches(The(c.current_event), process_name, window_title, is_idle_)
    THEN [c EXCEPT !.current_event =
              Some([The(c.current_event) EXCEPT !.end_time = timestamp])]
    ELSE LET new_event == ActivityEvent(timestamp, timestamp, process_name,
                                        window_title, is_idle_)
         IN  [current_event |-> Some(new_event),
              pending |-> IF c.current_event # None
                          THEN Append(c.pending, new_event)
                          ELSE c.pending]

\* ActivityCollector._create_or_extend_event on the collector state
\* c = [current_event, pending]; the result is the state it leaves.
_create_or_extend_event(c, timestamp, process_name, window_title, is_idle_) ==
    IF /\ c.current_event # None
       /\ _matches(The(c.current_event), process_name, window_title, is_idle_)
    THEN [c EXCEPT !.current_event =
              Some([The(c.current_event) EXCEPT !.end_time = timestamp])]
    ELSE [current_event |->
              Some(ActivityEvent(timestamp, timestamp, process_name,
                                 window_title, is_idle_)),
          pending |->
              IF c.current_event # None
              THEN Append(c.pending,
                          [The(c.current_event) EXCEPT !.end_time = timestamp])
              ELSE c.pending]

\* Mutant of SampleArgs: an idle sample keeps the process and title the
\* foreground probe reports.
SampleArgs_idle_keeps_window(query, window, lookup_ok) ==
    LET w == get_active_window(window, lookup_ok)
    IN  [process_name |-> w.process_name,
         window_title |-> normalize_window_title(w.process_name, w.window_title),
         is_idle |-> is_idle(query)]

\* The arguments sample_once passes to _create_or_extend_event for one
\* reading of the idle detector and of the foreground window.
SampleArgs(query, window, lookup_ok) ==
    IF is_idle(query)
    THEN [process_name |-> None, window_title |-> None, is_idle |-> TRUE]
    ELSE LET w == get_active_window(window, lookup_ok)
         IN  [process_name |-> w.process_name,
              window_title |-> normalize_window_title(w.process_name,
                                                      w.window_title),
              is_idle |-> FALSE]

\* Mutant of _flush_locked: the timestamp is reset also when there is
\* nothing to write.
_flush_locked_resets_when_empty(f, written, done_at) ==
    IF f.pending = << >>
    THEN [f EXCEPT !.raised = FALSE, !.last_flush_time = done_at]
    ELSE IF written < Len(f.pending)
         THEN [f EXCEPT !.store = insert_events(f.store, f.pending, written),
                        !.raised = TRUE]
         ELSE [pending |-> << >>,
               store |-> insert_events(f.store, f.pending, written),
               last_flush_time |-> done_at,
               raised |-> FALSE]

\* Mutant of _flush_locked: the buffer is cleared whether or not the write
\* raised (the clear in a finally clause).
_flush_locked_clears_on_failure(f, written, done_at) ==
    IF f.pending = << >> THEN [f EXCEPT !.raised = FALSE]
    ELSE IF written < Len(f.pending)
         THEN [f EXCEPT !.store = insert_events(f.store, f.pending, written),
                        !.pending = << >>,
                        !.raised = TRUE]
         ELSE [pending |-> << >>,
               store |-> insert_events(f.store, f.pending, written),
               last_flush_time |-> done_at,
               raised |-> FALSE]

\* Mutant of _flush_locked: the buffer is cleared before it is handed to
\* insert_events, which then writes nothing.
_flush_locked_clears_first(f, written, done_at) ==
    IF f.pending = << >> THEN [f EXCEPT !.raised = FALSE]
    ELSE [pending |-> << >>, store |-> f.store, last_flush_time |-> done_at,
          raised |-> FALSE]

\* ActivityCollector._flush_locked on f = [pending, store, last_flush_time].
\* written < Len(f.pending) means insert_events raised after that many rows;
\* done_at is the clock reading taken after the write.
_flush_locked(f, written, done_at) ==
    IF f.pending = << >> THEN [f EXCEPT !.raised = FALSE]
    ELSE IF written < Len(f.pending)
         THEN [f EXCEPT !.store = insert_events(f.store, f.pending, written),
                        !.raised = TRUE]
         ELSE [pending |-> << >>,
               store |-> insert_events(f.store, f.pending, written),
               last_flush_time |-> done_at,
               raised |-> FALSE]

\* Mutant of ShouldFlush: the interval must be exceeded, not only reached.
ShouldFlush_strict(pending_, last_flush_time_, flush_interval_, now_) ==
    now_ - last_flush_time_ > flush_interval_ /\ pending_ # << >>

\* The test of flush_if_needed.
ShouldFlush(pending_, last_flush_time_, flush_interval_, now_) ==
    now_ - last_flush_time_ >= flush_interval_ /\ pending_ # << >>

\* The first statement of flush(force): with force, the open event is closed
\* at now_ and moved to the buffer.
ForceClose(c, force, now_) ==
    IF force /\ c.current_event # None
    THEN [current_event |-> None,
          pending |-> Append(c.pending,
                             [The(c.current_event) EXCEPT !.end_time = now_])]
    ELSE c

\* ---------------------------------------------------------- db.py
\* update_event on the rows of activity_events; the id of a row is its
\* position.  updates has one entry per keyword: None when the keyword is not
\* passed, else Some(value), where the value None is Python's None.
\* start_time, end_time and is_idle are skipped when they are None;
\* process_name and window_title only when they are not passed (_UNSET).
\* The result says how the call ended: "returned", "ValueError", or
\* "sqlite3.Error" when the UPDATE statement fails (store_ok is false).
UpdateFields(updates) ==
    {k \in {"start_time", "end_time", "is_idle"} :
        updates[k] # None /\ The(updates[k]) # None}
    \cup {k \in {"process_name", "window_title"} : updates[k] # None}

\* The row after `UPDATE activity_events SET <fields> WHERE id = ?`.
UpdatedRow(row, updates) ==
    LET set(k) == k \in UpdateFields(updates)
    IN  [start_time |-> IF set("start_time")
                        THEN The(The(updates.start_time)) ELSE row.start_time,
         end_time |-> IF set("end_time")
                      THEN The(The(updates.end_time)) ELSE row.end_time,
         process_name |-> IF set("process_name")
                          THEN The(updates.process_name) ELSE row.process_name,
         window_title |-> IF set("window_title")
                          THEN The(updates.window_title) ELSE row.window_title,
         is_idle |-> IF set("is_idle")
                     THEN (IF The(The(updates.is_idle)) THEN 1 ELSE 0)
                     ELSE row.is_idle]

update_event(rows, event_id, updates, store_ok) ==
    IF UpdateFields(updates) = {}
    THEN [rows |-> rows, ended |-> "returned"]
    ELSE IF ~store_ok
    THEN [rows |-> rows, ended |-> "sqlite3.Error"]
    ELSE IF event_id \notin 1..Len(rows)
    THEN [rows |-> rows, ended |-> "ValueError"]
    ELSE [rows |-> [rows EXCEPT ![event_id] = UpdatedRow(rows[event_id], updates)],
          ended |-> "returned"]

\* fetch_activity_totals(conn, start, end_exclusive), which db.py of this
\* tree does not hold: the grouped query of the events whose start_time is in
\* [start, end_exclusive), one row per (process_name, window_title, is_idle)
\* with the summed end_time - start_time as seconds, in the order in which the
\* groups first appear.
TotalsKey(row) ==
    [process_name |-> row.process_name, window_title |-> row.window_title,
     is_idle |-> row.is_idle]

RECURSIVE GroupTotals(_, _)
GroupTotals(rows, totals) ==
    IF rows = << >> THEN totals
    ELSE LET row == Head(rows)
             seconds == row.end_time - row.start_time
             hit == {i \in 1..Len(totals) : TotalsKey(totals[i]) = TotalsKey(row)}
         IN  GroupTotals(Tail(rows),
                 IF hit = {}
                 THEN Append(totals, [process_name |-> row.process_name,
                                      window_title |-> row.window_title,
                                      is_idle |-> row.is_idle,
                                      seconds |-> seconds])
                 ELSE [totals EXCEPT ![CHOOSE i \in hit : TRUE].seconds = @ + seconds])

fetch_activity_totals(rows, start, end_exclusive) ==
    GroupTotals(SelectSeq(rows, LAMBDA row : /\ row.start_time >= start
                                             /\ row.start_time < end_exclusive),
                << >>)

\* --------------------------------------------------------- webapp.py
\* str.strip() on the process and project names of the model.
StripName(name) ==
    CASE name = " chrome.exe " -> "chrome.exe"
      [] name = " " -> ""
      [] OTHER -> name

_canonical_window_title(process_name, window_title) ==
    LET normalized == normalize_window_title(process_name, window_title)
    IN  IF normalized # None THEN normalized
        ELSE IF window_title # None /\ The(window_title) # << >>
        THEN OrNone(Strip(The(window_title), {" "}))
        ELSE None

_normalize_process_name(value) ==
    IF value = None THEN None
    ELSE LET lowered == Lower(StripName(The(value)))
         IN  IF lowered = "" THEN None ELSE Some(lowered)

\* A dict is the sequence of its [key, value] items in insertion order.
DictGet(d, key) ==
    LET hit == {i \in 1..Len(d) : d[i].key = key}
    IN  IF hit = {} THEN None ELSE Some(d[CHOOSE i \in hit : TRUE].value)

\* d[key] = value
DictSet(d, key, value) ==
    LET hit == {i \in 1..Len(d) : d[i].key = key}
    IN  IF hit = {} THEN Append(d, [key |-> key, value |-> value])
        ELSE [d EXCEPT ![CHOOSE i \in hit : TRUE].value = value]

\* d[key] += seconds on a defaultdict(int)
DictAdd(d, key, seconds) ==
    LET old == DictGet(d, key)
    IN  DictSet(d, key, (IF old = None THEN 0 ELSE The(old)) + seconds)

\* `title if title else None`
TitleKey(window_title) ==
    IF window_title # None /\ The(window_title) # << >> THEN window_title
    ELSE None

RECURSIVE _build_project_lookup(_)
_build_project_lookup(rows) ==
    IF rows = << >> THEN << >>
    ELSE LET row == rows[Len(rows)]
             lookup == _build_project_lookup(SubSeq(rows, 1, Len(rows) - 1))
             project_name == StripName(row.project_name)
         IN  IF project_name = "" THEN lookup
             ELSE DictSet(lookup,
                          [process_key |-> _normalize_process_name(row.process_name),
                           title_key |-> TitleKey(row.window_title)],
                          project_name)

\* The loop over the candidate keys: the project of the first key the lookup
\* holds.
RECURSIVE FirstProject(_, _)
FirstProject(lookup, candidates) ==
    IF candidates = << >> THEN None
    ELSE LET project == DictGet(lookup, Head(candidates))
         IN  IF project # None /\ The(project) # "" THEN project
             ELSE FirstProject(lookup, Tail(candidates))

\* Mutant of _resolve_project: the title-only key is tried before the
\* process-only key.
_resolve_project_title_first(lookup, process_name, window_title) ==
    LET process_key == _normalize_process_name(process_name)
        title_key == TitleKey(window_title)
    IN  FirstProject(lookup,
            << [process_key |-> process_key, title_key |-> title_key],
               [process_key |-> None, title_key |-> title_key],
               [process_key |-> process_key, title_key |-> None] >>)

_resolve_project(lookup, process_name, window_title) ==
    LET process_key == _normalize_process_name(process_name)
        title_key == TitleKey(window_title)
    IN  FirstProject(lookup,
            << [process_key |-> process_key, title_key |-> title_key],
               [process_key |-> process_key, title_key |-> None],
               [process_key |-> None, title_key |-> title_key] >>)

\* Mutant of Buckets: a row overwrites the seconds of its bucket.
RECURSIVE Buckets_overwrite(_)
Buckets_overwrite(rows) ==
    IF rows = << >> THEN << >>
    ELSE LET row == rows[Len(rows)]
             title == _canonical_window_title(row.process_name, row.window_title)
         IN  DictSet(Buckets_overwrite(SubSeq(rows, 1, Len(rows) - 1)),
                     [process_name |-> row.process_name, window_title |-> title,
                      is_idle |-> row.is_idle # 0],
                     row.seconds)

\* The first loop of overview: the rows of the store are merged into buckets
\* keyed by (process_name, canonical title, is_idle).
RECURSIVE Buckets(_)
Buckets(rows) ==
    IF rows = << >> THEN << >>
    ELSE LET row == rows[Len(rows)]
             title == _canonical_window_title(row.process_name, row.window_title)
         IN  DictAdd(Buckets(SubSeq(rows, 1, Len(rows) - 1)),
                     [process_name |-> row.process_name, window_title |-> title,
                      is_idle |-> row.is_idle # 0],
                     row.seconds)

\* The project an entry of overview carries: idle buckets are not resolved.
BucketProject(lookup, key) ==
    IF key.is_idle THEN None
    ELSE _resolve_project(lookup, key.process_name, key.window_title)

\* The second loop of overview over buckets.items().
RECURSIVE Accumulate(_, _)
Accumulate(buckets, lookup) ==
    IF buckets = << >>
    THEN [active_entries |-> << >>, idle_entries |-> << >>,
          project_totals |-> << >>, total_active |-> 0, total_idle |-> 0]
    ELSE LET item == buckets[Len(buckets)]
             acc == Accumulate(SubSeq(buckets, 1, Len(buckets) - 1), lookup)
             project_name == BucketProject(lookup, item.key)
             entry == [process_name |-> item.key.process_name,
                       window_title |-> item.key.window_title,
                       seconds |-> item.value,
                       is_idle |-> item.key.is_idle,
                       project_name |-> project_name]
         IN  [active_entries |-> IF item.key.is_idle THEN acc.active_entries
                                 ELSE Append(acc.active_entries, entry),
              idle_entries |-> IF item.key.is_idle
                               THEN Append(acc.idle_entries, entry)
                               ELSE acc.idle_entries,
              project_totals |-> IF project_name # None
                                 THEN DictAdd(acc.project_totals,
                                              The(project_name), item.value)
                                 ELSE acc.project_totals,
              total_active |-> IF item.key.is_idle THEN acc.total_active
                               ELSE acc.total_active + item.value,
              total_idle |-> IF item.key.is_idle
                             THEN acc.total_idle + item.value
                             ELSE acc.total_idle]

\* list.sort(key=seconds, reverse=True) and sorted(..., reverse=True): stable
\* sorts, so items with equal seconds keep their order.
RECURSIVE InsertDesc(_, _)
InsertDesc(sorted, x) ==
    IF sorted = << >> THEN <<x>>
    ELSE IF Head(sorted).seconds >= x.seconds
    THEN <<Head(sorted)>> \o InsertDesc(Tail(sorted), x)
    ELSE <<x>> \o sorted

RECURSIVE SortDesc(_)
SortDesc(items) ==
    IF items = << >> THEN << >>
    ELSE InsertDesc(SortDesc(SubSeq(items, 1, Len(items) - 1)),
                    items[Len(items)])

\* overview after its two queries: rows is the answer of
\* fetch_activity_totals and mapping_rows that of fetch_project_mappings.
OverviewPayload(rows, mapping_rows) ==
    LET acc == Accumulate(Buckets(rows), _build_project_lookup(mapping_rows))
    IN  [totals |-> [active_seconds |-> acc.total_active,
                     idle_seconds |-> acc.total_idle,
                     overall_seconds |-> acc.total_active + acc.total_idle],
         entries |-> SortDesc(acc.active_entries),
         idle_entries |-> SortDesc(acc.idle_entries),
         project_totals |-> SortDesc([i \in 1..Len(acc.project_totals) |->
                               [project_name |-> acc.project_totals[i].key,
                                seconds |-> acc.project_totals[i].value]])]

\* _parse_date: a query parameter is None when it is omitted, else Some of
\* [text, day] with text "empty" for the empty string, "malformed" for a
\* string strptime rejects and "date" for the date of day `day`.  The result
\* is Some(day), or None when HTTPException(400, "Invalid date format") is
\* raised.
_parse_date(value, today) ==
    IF value = None \/ The(value).text = "empty" THEN Some(today)
    ELSE IF The(value).text = "malformed" THEN None
    ELSE Some(The(value).day)

\* `_parse_date(end) if end else start_day`
EndDay(end, start_day, today) ==
    IF end = None \/ The(end).text = "empty" THEN Some(start_day)
    ELSE _parse_date(end, today)

\* Mutant of RangeRejected: a range of one day is rejected too.
RangeRejected_single_day(start_day, end_day) == end_day <= start_day

\* `if end_day < start_day: raise HTTPException(400, ...)`
RangeRejected(start_day, end_day) == end_day < start_day

\* The overview handler on the tables events and mapping_rows.  queries
\* counts the store queries the handler has issued when it returns or raises.
overview(events, mapping_rows, start, end, today) ==
    LET start_day == _parse_date(start, today)
        end_day == EndDay(end, The(start_day), today)
    IN  IF start_day = None \/ end_day = None
        THEN [op |-> "overview", status |-> 400,
              detail |-> "Invalid date format", queries |-> 0,
              start |-> start, end |-> end, today |-> today]
        ELSE IF RangeRejected(The(start_day), The(end_day))
        THEN [op |-> "overview", status |-> 400,
              detail |-> "end date must be on or after start date",
              queries |-> 0, start |-> start, end |-> end, today |-> today]
        ELSE LET rows == fetch_activity_totals(events,
                             The(start_day) * TicksPerDay,
                             (The(end_day) + 1) * TicksPerDay)
             IN  [op |-> "overview", status |-> 200, queries |-> 2,
                  start |-> start, end |-> end, today |-> today,
                  start_day |-> The(start_day), end_day |-> The(end_day),
                  rows |-> rows,
                  payload |-> OverviewPayload(rows, mapping_rows)]

\* Mutant of update_event_endpoint: the row read back after update_event is
\* not tested for None.
update_event_endpoint_trusts_update(events, event_id, updates, store_ok) ==
    IF updates.start_time # None /\ updates.end_time # None
       /\ (The(updates.start_time) = None \/ The(updates.end_time) = None)
    THEN [events |-> events, status |-> 500]
    ELSE IF updates.start_time # None /\ updates.end_time # None
            /\ The(The(updates.end_time)) <= The(The(updates.start_time))
    THEN [events |-> events, status |-> 400]
    ELSE LET u == update_event(events, event_id, updates, store_ok)
         IN  IF u.ended = "ValueError" THEN [events |-> u.rows, status |-> 404]
             ELSE IF u.ended = "sqlite3.Error"
             THEN [events |-> u.rows, status |-> 500]
             ELSE [events |-> u.rows, status |-> 200]

\* The PATCH handler: updates is payload.model_dump(exclude_unset=True), with
\* None for a key the dump does not hold.  Comparing a bound that is null
\* raises TypeError, which the server answers with status 500, like a failure
\* of the store.
update_event_endpoint(events, event_id, updates, store_ok) ==
    IF updates.start_time # None /\ updates.end_time # None
       /\ (The(updates.start_time) = None \/ The(updates.end_time) = None)
    THEN [events |-> events, status |-> 500]
    ELSE IF updates.start_time # None /\ updates.end_time # None
            /\ The(The(updates.end_time)) <= The(The(updates.start_time))
    THEN [events |-> events, status |-> 400]
    ELSE LET u == update_event(events, event_id, updates, store_ok)
         IN  IF u.ended = "ValueError" THEN [events |-> u.rows, status |-> 404]
             ELSE IF u.ended = "sqlite3.Error"
             THEN [events |-> u.rows, status |-> 500]
             ELSE IF event_id \notin 1..Len(u.rows)
             THEN [events |-> u.rows, status |-> 404]
             ELSE [events |-> u.rows, status |-> 200]

\* ------------------------------------- the day queries of db.py
\* day.replace(hour=0, minute=0, second=0, microsecond=0), in ticks.
DayStart(day) == day * TicksPerDay

\* Mutant of StartsInDay: an event belongs to every day it overlaps.
StartsInDay_overlap(row, day) ==
    row.start_time < DayStart(day) + TicksPerDay /\ row.end_time >= DayStart(day)

\* WHERE start_time >= ? AND start_time < ?  with start and
\* end = start + timedelta(days=1) of the day.
StartsInDay(row, day) ==
    row.start_time >= DayStart(day) /\ row.start_time < DayStart(day) + TicksPerDay

\* The orders a query may return its rows in: every arrangement of items.
Orderings(items) ==
    LET n == Len(items)
        arrangements == { f \in [1..n -> 1..n] :
                            \A a, b \in 1..n : a # b => f[a] # f[b] }
    IN  { [i \in 1..n |-> items[f[i]]] : f \in arrangements }

\* GROUP BY process_name, window_title, is_idle with
\* SUM(strftime('%s', end_time) - strftime('%s', start_time)) AS seconds.
RECURSIVE SummaryGroups(_, _, _)
SummaryGroups(rows, day, groups) ==
    IF rows = << >> THEN groups
    ELSE LET row == Head(rows)
             hit == { i \in 1..Len(groups) :
                        /\ groups[i].process_name = row.process_name
                        /\ groups[i].window_title = row.window_title
                        /\ groups[i].is_idle = row.is_idle }
         IN  SummaryGroups(Tail(rows), day,
                 IF ~StartsInDay(row, day) THEN groups
                 ELSE IF hit = {}
                 THEN Append(groups,
                          [process_name |-> row.process_name,
                           window_title |-> row.window_title,
                           is_idle |-> row.is_idle,
                           seconds |-> row.end_time - row.start_time])
                 ELSE [groups EXCEPT ![CHOOSE i \in hit : TRUE].seconds =
                                        @ + (row.end_time - row.start_time)])

\* fetch_summary_by_day: the answers the query can give.  ORDER BY seconds
\* DESC leaves the order of groups with equal seconds to the database.
fetch_summary_by_day(rows, day) ==
    { o \in Orderings(SummaryGroups(rows, day, << >>)) :
        \A i \in 1..(Len(o) - 1) : o[i].seconds >= o[i + 1].seconds }

\* The rows with their ids that fetch_events_for_day selects.
RECURSIVE EventsOfDay(_, _, _)
EventsOfDay(rows, day, id) ==
    IF id > Len(rows) THEN << >>
    ELSE (IF StartsInDay(rows[id], day)
          THEN << [id |-> id, start_time |-> rows[id].start_time,
                   end_time |-> rows[id].end_time,
                   process_name |-> rows[id].process_name,
                   window_title |-> rows[id].window_title,
                   is_idle |-> rows[id].is_idle] >>
          ELSE << >>)
         \o EventsOfDay(rows, day, id + 1)

\* fetch_events_for_day: the answers the query can give.  ORDER BY
\* start_time leaves the order of events that start together to the database.
fetch_events_for_day(rows, day) ==
    { o \in Orderings(EventsOfDay(rows, day, 1)) :
        \A i \in 1..(Len(o) - 1) : o[i].start_time <= o[i + 1].start_time }

\* sum(row["seconds"] for row in rows if row["is_idle"] == flag)
RECURSIVE SecondsWhere(_, _)
SecondsWhere(rows, flag) ==
    IF rows = << >> THEN 0
    ELSE (IF Head(rows).is_idle = flag THEN Head(rows).seconds ELSE 0)
         + SecondsWhere(Tail(rows), flag)

\* ------------------------------------------------------ reporting.py
\* `row["process_name"] or "Unknown"`
ProcessLabel(row) ==
    IF row.process_name = None \/ The(row.process_name) = "" THEN "Unknown"
    ELSE The(row.process_name)

\* The loop of aggregate_by_process: totals[process] += row["seconds"] for
\* the rows that are not idle.
RECURSIVE ProcessTotals(_)
ProcessTotals(rows) ==
    IF rows = << >> THEN << >>
    ELSE LET row == rows[Len(rows)]
             totals == ProcessTotals(SubSeq(rows, 1, Len(rows) - 1))
         IN  IF row.is_idle = 1 THEN totals
             ELSE DictAdd(totals, ProcessLabel(row), row.seconds)

\* The loop of aggregate_top_windows: totals[(process, window)] +=
\* row["seconds"] for the rows that are not idle.
RECURSIVE WindowTotals(_)
WindowTotals(rows) ==
    IF rows = << >> THEN << >>
    ELSE LET row == rows[Len(rows)]
             totals == WindowTotals(SubSeq(rows, 1, Len(rows) - 1))
         IN  IF row.is_idle = 1 THEN totals
             ELSE DictAdd(totals, [process |-> ProcessLabel(row),
                                   window |-> row.window_title], row.seconds)

Reverse(items) == [i \in 1..Len(items) |-> items[Len(items) + 1 - i]]

\* Mutant of aggregate_by_process: sorted ascending and then reversed, which
\* turns the order of the keys with equal seconds around.
aggregate_by_process_reversed(rows) ==
    LET totals == ProcessTotals(rows)
    IN  SortDesc(Reverse([i \in 1..Len(totals) |->
                     [process |-> totals[i].key, seconds |-> totals[i].value]]))

\* sorted(totals.items(), key=lambda item: item[1], reverse=True)
aggregate_by_process(rows) ==
    LET totals == ProcessTotals(rows)
    IN  SortDesc([i \in 1..Len(totals) |->
                     [process |-> totals[i].key, seconds |-> totals[i].value]])

aggregate_top_windows(rows) ==
    LET totals == WindowTotals(rows)
    IN  SortDesc([i \in 1..Len(totals) |->
                     [process |-> totals[i].key.process,
                      window |-> totals[i].key.window,
                      seconds |-> totals[i].value]])

\* ------------------------------------------------- inputs of the model
\* The foreground windows the probe can find: the window's text and the name
\* of the process that owns it.
Windows ==
    { [text |-> <<"Doc", " ", "-", " ", "Google", " ", "Chrome">>,
       name |-> "chrome.exe"],
      [text |-> <<"Doc", " ", "and", " ", "3", " ", "more", " ", "pages",
                  " ", "-", " ", "Google", " ", "Chrome">>,
       name |-> "chrome.exe"] }

\* The outcomes of GetLastInputInfo against the idle threshold.
IdleQueries == {"idle", "active", "error"}

Min(a, b) == IF a <= b THEN a ELSE b

\* ---------------------------------------------------------------- state
VARIABLES
    now,              \* the clock datetime.now() reads
    pc,               \* where the sampler thread is in run_until_stopped
    stop_event,       \* threading.Event: is it set
    current_event,    \* CollectorState.current_event
    pending,          \* ActivityCollector._pending
    last_flush_time,  \* CollectorState.last_flush_time
    store,            \* the rows of activity_events, in insertion order
    flush_interval,   \* settings.flush_interval
    raised,           \* an exception has escaped _run_loop or _shutdown
    samples,          \* history: the calls of _create_or_extend_event
    closed,           \* history: the events moved to the buffer, in order
    last_op,          \* history: the branch the last step took
    entry,            \* the entry point of the run: run_forever or
                      \* run_until_stopped
    lock,             \* ActivityCollector._lock: None or Some(holder)
    callers,          \* per thread calling the collector's methods: its
                      \* position in the method and the method's locals
    calls,            \* history: the number of method calls (LockSpec) or
                      \* PATCH requests (ApiSpec, UpdateSpec) made so far
    touched,          \* history: the last access to the open event, the
                      \* buffer or last_flush_time, and whether its thread
                      \* held the lock
    mappings,         \* the rows of project_mappings
    response,         \* history: the last request to the serving layer
                      \* and its answer
    runner,           \* CollectorRunner: _thread and _stop_event
    workers           \* the threads CollectorRunner.start has created, in
                      \* order: are they alive, is their stop event set

\* The threads that call the methods of one collector instance.
Threads == {"t1", "t2"}

\* A thread that is in none of the collector's methods.
NoCall == [at |-> "idle"]

\* The variables no step of the sampler changes.
outside == <<entry, lock, callers, calls, touched, mappings, response,
             runner, workers>>

\* CollectorRunner.__init__
NoRunner == [thread |-> None, stop_event |-> None]

\* No request has been answered yet.
NoResponse == [op |-> "none"]

vars == <<now, pc, stop_event, current_event, pending, last_flush_time, store,
          flush_interval, raised, samples, closed, last_op, outside>>

\* ActivityCollector.__init__ followed by the entry of run_forever, whose
\* stop event is local and never set, or of run_until_stopped.
Init ==
    /\ entry \in {"run_forever", "run_until_stopped"}
    /\ lock = None
    /\ callers = [t \in Threads |-> NoCall]
    /\ calls = 0
    /\ touched = [by |-> "init", op |-> "__init__", held |-> TRUE]
    /\ mappings = << >>
    /\ response = NoResponse
    /\ runner = NoRunner
    /\ workers = << >>
    /\ now = 0
    /\ pc = "loop"
    /\ stop_event = FALSE
    /\ current_event = None
    /\ pending = << >>
    /\ last_flush_time = 0
    /\ store = << >>
    /\ flush_interval \in 1..MaxFlushInterval
    /\ raised = FALSE
    /\ samples = << >>
    /\ closed = << >>
    /\ last_op = "init"

\* Mutant of LoopEnter: the while test does not look at the stop event.
LoopEnter_ignores_stop ==
    /\ pc = "loop"
    /\ Len(samples) < MaxSamples
    /\ pc' = "sample_once"
    /\ last_op' = "loop"
    /\ UNCHANGED <<now, stop_event, current_event, pending, last_flush_time,
                   store, flush_interval, raised, samples, closed>>
    /\ UNCHANGED outside

\* _run_loop: `while not stop_event.is_set()` finds the event clear.
LoopEnter ==
    /\ pc = "loop"
    /\ ~stop_event
    /\ Len(samples) < MaxSamples
    /\ pc' = "sample_once"
    /\ last_op' = "loop"
    /\ UNCHANGED <<now, stop_event, current_event, pending, last_flush_time,
                   store, flush_interval, raised, samples, closed>>
    /\ UNCHANGED outside

\* _run_loop: the while test finds the event set; run_until_stopped goes on
\* to its finally clause.
LoopExit ==
    /\ pc = "loop"
    /\ stop_event
    /\ pc' = "shutdown"
    /\ last_op' = "exit"
    /\ UNCHANGED <<now, stop_event, current_event, pending, last_flush_time,
                   store, flush_interval, raised, samples, closed>>
    /\ UNCHANGED outside

\* sample_once
SampleOnce ==
    /\ pc = "sample_once"
    /\ \E query \in IdleQueries, window \in {None} \cup {Some(w) : w \in Windows},
          lookup_ok \in BOOLEAN :
         LET a == SampleArgs(query, window, lookup_ok)
             c == _create_or_extend_event(
                      [current_event |-> current_event, pending |-> pending],
                      now, a.process_name, a.window_title, a.is_idle)
             failed == \/ query = "error"
                       \/ ~is_idle(query) /\ window # None /\ ~lookup_ok
         IN  /\ current_event' = c.current_event
             /\ pending' = c.pending
             /\ samples' = Append(samples,
                    [timestamp |-> now, process_name |-> a.process_name,
                     window_title |-> a.window_title, is_idle |-> a.is_idle,
                     probe_failed |-> failed, stop_was_set |-> stop_event])
             /\ closed' = IF Len(c.pending) > Len(pending)
                          THEN Append(closed, c.pending[Len(c.pending)])
                          ELSE closed
             /\ last_op' = IF current_event = None THEN "open"
                           ELSE IF Len(c.pending) > Len(pending)
                                THEN "transition" ELSE "extend"
    /\ pc' = "flush_if_needed"
    /\ UNCHANGED <<now, stop_event, last_flush_time, store, flush_interval,
                   raised>>
    /\ UNCHANGED outside

\* flush_if_needed.  An exception of insert_events leaves _run_loop, and
\* run_until_stopped goes on to its finally clause.
FlushIfNeeded ==
    /\ pc = "flush_if_needed"
    /\ IF ShouldFlush(pending, last_flush_time, flush_interval, now)
       THEN \E written \in 0..Len(pending), done_at \in now..Min(now + 1, MaxTime) :
              LET f == _flush_locked(
                           [pending |-> pending, store |-> store,
                            last_flush_time |-> last_flush_time,
                            raised |-> FALSE], written, done_at)
              IN  /\ pending' = f.pending
                  /\ store' = f.store
                  /\ last_flush_time' = f.last_flush_time
                  /\ raised' = f.raised
                  /\ now' = done_at
                  /\ pc' = IF f.raised THEN "shutdown" ELSE "wait"
                  /\ last_op' = IF f.raised THEN "flush_failed" ELSE "flushed"
       ELSE /\ pc' = "wait"
            /\ last_op' = "flush_skipped"
            /\ UNCHANGED <<pending, store, last_flush_time, raised, now>>
    /\ UNCHANGED <<stop_event, current_event, flush_interval, samples, closed>>
    /\ UNCHANGED outside

\* stop_event.wait(interval) returns at once when the event is set.
WaitStopped ==
    /\ pc = "wait"
    /\ stop_event
    /\ pc' = "loop"
    /\ last_op' = "wait_stopped"
    /\ UNCHANGED <<now, stop_event, current_event, pending, last_flush_time,
                   store, flush_interval, raised, samples, closed>>
    /\ UNCHANGED outside

\* stop_event.wait(interval) times out: one tick is one sample_interval.
WaitTimeout ==
    /\ pc = "wait"
    /\ ~stop_event
    /\ now < MaxTime
    /\ now' = now + 1
    /\ pc' = "loop"
    /\ last_op' = "wait_timeout"
    /\ UNCHANGED <<stop_event, current_event, pending, last_flush_time, store,
                   flush_interval, raised, samples, closed>>
    /\ UNCHANGED outside

\* _shutdown(force=True): flush(force=True), then the connection is closed
\* whether or not the flush raised.
Shutdown ==
    /\ pc = "shutdown"
    /\ LET c == ForceClose([current_event |-> current_event,
                            pending |-> pending], TRUE, now)
       IN  \E written \in 0..Len(c.pending), done_at \in now..Min(now + 1, MaxTime) :
             LET f == _flush_locked(
                          [pending |-> c.pending, store |-> store,
                           last_flush_time |-> last_flush_time,
                           raised |-> FALSE], written, done_at)
             IN  /\ current_event' = c.current_event
                 /\ pending' = f.pending
                 /\ store' = f.store
                 /\ last_flush_time' = f.last_flush_time
                 /\ raised' = (raised \/ f.raised)
                 /\ now' = IF c.pending = << >> THEN now ELSE done_at
                 /\ closed' = IF current_event # None
                              THEN Append(closed, c.pending[Len(c.pending)])
                              ELSE closed
                 /\ last_op' = IF c.pending = << >> THEN "force_noop"
                               ELSE IF f.raised THEN "force_failed"
                               ELSE "force_flushed"
    /\ pc' = "done"
    /\ UNCHANGED <<stop_event, flush_interval, samples>>
    /\ UNCHANGED outside

\* CollectorRunner.stop sets the stop event from the serving thread.
StopSet ==
    /\ entry = "run_until_stopped"
    /\ ~stop_event
    /\ pc # "done"
    /\ stop_event' = TRUE
    /\ UNCHANGED <<now, pc, current_event, pending, last_flush_time, store,
                   flush_interval, raised, samples, closed, last_op>>
    /\ UNCHANGED outside

\* The wait lasts longer than the interval (the thread wakes up late, or the
\* event is set later during the wait).
Tick ==
    /\ pc = "wait"
    /\ now < MaxTime
    /\ now' = now + 1
    /\ UNCHANGED <<pc, stop_event, current_event, pending, last_flush_time,
                   store, flush_interval, raised, samples, closed, last_op>>
    /\ UNCHANGED outside

\* run_forever: a KeyboardInterrupt reaches the loop between two of its
\* statements or during the wait; it is caught and the finally clause runs.
KeyboardInterrupt ==
    /\ entry = "run_forever"
    /\ pc \in {"loop", "sample_once", "flush_if_needed", "wait"}
    /\ pc' = "shutdown"
    /\ last_op' = "interrupt"
    /\ UNCHANGED <<now, stop_event, current_event, pending, last_flush_time,
                   store, flush_interval, raised, samples, closed>>
    /\ UNCHANGED outside

Next ==
    \/ LoopEnter
    \/ LoopExit
    \/ SampleOnce
    \/ FlushIfNeeded
    \/ WaitStopped
    \/ WaitTimeout
    \/ Shutdown
    \/ StopSet
    \/ KeyboardInterrupt
    \/ Tick

Spec == Init /\ [][Next]_vars

\* The runs in which every write to the store and every probe succeeds and
\* the sampler's thread keeps being scheduled: a step that can be taken is
\* taken.  The clock of the model ends at MaxTime and a run takes MaxSamples
\* samples at most, so every such run ends with the stop event or the
\* interrupt and the forced flush.
LiveNext ==
    /\ Next
    /\ ~raised'
    /\ samples' # samples => ~samples'[Len(samples')].probe_failed

LiveSpec == Init /\ [][LiveNext]_vars /\ WF_vars(LiveNext)

\* ------------------------------------------ the collector's lock
\* The methods of one collector instance called from several threads, one
\* step per lock operation.  The steps between `with self._lock:` and the end
\* of its block are one step, taken with the lock held.

\* The variables of the sampler's loop, which the callers leave alone.
loopvars == <<pc, stop_event, flush_interval, raised, samples, closed,
              last_op, entry, mappings, response, runner, workers>>

LockInit ==
    /\ entry = "none"
    /\ pc = "none"
    /\ stop_event = FALSE
    /\ raised = FALSE
    /\ samples = << >>
    /\ closed = << >>
    /\ last_op = "init"
    /\ flush_interval \in 1..MaxFlushInterval
    /\ now = 0
    /\ current_event = None
    /\ pending = << >>
    /\ last_flush_time = 0
    /\ store = << >>
    /\ lock = None
    /\ callers = [t \in Threads |-> NoCall]
    /\ calls = 0
    /\ touched = [by |-> "init", op |-> "__init__", held |-> TRUE]
    /\ mappings = << >>
    /\ response = NoResponse
    /\ runner = NoRunner
    /\ workers = << >>

\* sample_once up to the call of _create_or_extend_event: the clock and the
\* probes are read without the lock.
CallSampleOnce(t) ==
    /\ callers[t].at = "idle"
    /\ calls < MaxCalls
    /\ \E query \in {"idle", "active"}, window \in Windows :
         callers' = [callers EXCEPT ![t] =
             [at |-> "observe_wait", timestamp |-> now,
              args |-> SampleArgs(query, Some(window), TRUE)]]
    /\ calls' = calls + 1
    /\ UNCHANGED <<now, current_event, pending, last_flush_time, store, lock,
                   touched>>
    /\ UNCHANGED loopvars

\* flush_if_needed is called.
CallFlushIfNeeded(t) ==
    /\ callers[t].at = "idle"
    /\ calls < MaxCalls
    /\ callers' = [callers EXCEPT ![t] = [at |-> "flush_if_needed_wait"]]
    /\ calls' = calls + 1
    /\ UNCHANGED <<now, current_event, pending, last_flush_time, store, lock,
                   touched>>
    /\ UNCHANGED loopvars

\* flush(force) is called.
CallFlush(t) ==
    /\ callers[t].at = "idle"
    /\ calls < MaxCalls
    /\ \E force \in BOOLEAN :
         callers' = [callers EXCEPT ![t] = [at |-> "flush_wait",
                                            force |-> force]]
    /\ calls' = calls + 1
    /\ UNCHANGED <<now, current_event, pending, last_flush_time, store, lock,
                   touched>>
    /\ UNCHANGED loopvars

\* The positions in front of `with self._lock:` and inside its block.
Waiting == {"observe_wait", "flush_if_needed_wait", "flush_wait"}
Inside == {"observe_cs", "flush_if_needed_cs", "flush_cs"}

Entered(at) ==
    CASE at = "observe_wait" -> "observe_cs"
      [] at = "flush_if_needed_wait" -> "flush_if_needed_cs"
      [] at = "flush_wait" -> "flush_cs"

\* Mutant of Acquire: the lock is taken without waiting for its holder.
Acquire_no_wait(t) ==
    /\ callers[t].at \in Waiting
    /\ lock' = Some(t)
    /\ callers' = [callers EXCEPT ![t].at = Entered(callers[t].at)]
    /\ UNCHANGED <<now, current_event, pending, last_flush_time, store, calls,
                   touched>>
    /\ UNCHANGED loopvars

\* `with self._lock:` acquires the lock once nobody holds it.
Acquire(t) ==
    /\ callers[t].at \in Waiting
    /\ lock = None
    /\ lock' = Some(t)
    /\ callers' = [callers EXCEPT ![t].at = Entered(callers[t].at)]
    /\ UNCHANGED <<now, current_event, pending, last_flush_time, store, calls,
                   touched>>
    /\ UNCHANGED loopvars

\* The lock as the end of a `with self._lock:` block of thread t leaves it.
Released(t) == IF lock = Some(t) THEN None ELSE lock

\* The block of _create_or_extend_event, then the release of the lock.
Observe(t) ==
    /\ callers[t].at = "observe_cs"
    /\ LET a == callers[t].args
           c == _create_or_extend_event(
                    [current_event |-> current_event, pending |-> pending],
                    callers[t].timestamp, a.process_name, a.window_title,
                    a.is_idle)
       IN  /\ current_event' = c.current_event
           /\ pending' = c.pending
    /\ touched' = [by |-> t, op |-> "_create_or_extend_event",
                   held |-> lock = Some(t)]
    /\ lock' = Released(t)
    /\ callers' = [callers EXCEPT ![t] = [at |-> "log"]]
    /\ UNCHANGED <<now, last_flush_time, store, calls>>
    /\ UNCHANGED loopvars

\* sample_once after _create_or_extend_event has returned the open event:
\* logger.debug is handed the event's is_idle, process_name and window_title.
LogRead(t) ==
    /\ callers[t].at = "log"
    /\ touched' = [by |-> t, op |-> "sample_once", held |-> lock = Some(t)]
    /\ callers' = [callers EXCEPT ![t] = NoCall]
    /\ UNCHANGED <<now, current_event, pending, last_flush_time, store, lock,
                   calls>>
    /\ UNCHANGED loopvars

\* The block of flush_if_needed, then the release of the lock (also when
\* insert_events raises).
LockedFlushIfNeeded(t) ==
    /\ callers[t].at = "flush_if_needed_cs"
    /\ IF ShouldFlush(pending, last_flush_time, flush_interval, now)
       THEN \E written \in 0..Len(pending) :
              LET f == _flush_locked(
                           [pending |-> pending, store |-> store,
                            last_flush_time |-> last_flush_time,
                            raised |-> FALSE], written, now)
              IN  /\ pending' = f.pending
                  /\ store' = f.store
                  /\ last_flush_time' = f.last_flush_time
       ELSE UNCHANGED <<pending, store, last_flush_time>>
    /\ touched' = [by |-> t, op |-> "flush_if_needed", held |-> lock = Some(t)]
    /\ lock' = Released(t)
    /\ callers' = [callers EXCEPT ![t] = NoCall]
    /\ UNCHANGED <<now, current_event, calls>>
    /\ UNCHANGED loopvars

\* The block of flush(force), then the release of the lock.
LockedFlush(t) ==
    /\ callers[t].at = "flush_cs"
    /\ LET c == ForceClose([current_event |-> current_event,
                            pending |-> pending], callers[t].force, now)
       IN  \E written \in 0..Len(c.pending) :
             LET f == _flush_locked(
                          [pending |-> c.pending, store |-> store,
                           last_flush_time |-> last_flush_time,
                           raised |-> FALSE], written, now)
             IN  /\ current_event' = c.current_event
                 /\ pending' = f.pending
                 /\ store' = f.store
                 /\ last_flush_time' = f.last_flush_time
    /\ touched' = [by |-> t, op |-> "flush", held |-> lock = Some(t)]
    /\ lock' = Released(t)
    /\ callers' = [callers EXCEPT ![t] = NoCall]
    /\ UNCHANGED <<now, calls>>
    /\ UNCHANGED loopvars

\* Time passes between the steps of the threads.
LockTick ==
    /\ now < MaxTime
    /\ now' = now + 1
    /\ UNCHANGED <<current_event, pending, last_flush_time, store, lock,
                   callers, calls, touched>>
    /\ UNCHANGED loopvars

LockNext ==
    \/ \E t \in Threads : CallSampleOnce(t)
    \/ \E t \in Threads : CallFlushIfNeeded(t)
    \/ \E t \in Threads : CallFlush(t)
    \/ \E t \in Threads : Acquire(t)
    \/ \E t \in Threads : Observe(t)
    \/ \E t \in Threads : LogRead(t)
    \/ \E t \in Threads : LockedFlushIfNeeded(t)
    \/ \E t \in Threads : LockedFlush(t)
    \/ LockTick

LockSpec == LockInit /\ [][LockNext]_vars

\* ------------------------------------------------ the serving layer
\* The requests of the serving layer on the tables activity_events (store)
\* and project_mappings (mappings).  calls counts the PATCH requests.

\* The variables of the collector, which the handlers leave alone.
collectorvars == <<now, pc, stop_event, current_event, pending,
                   last_flush_time, flush_interval, raised, samples, closed,
                   last_op, entry, lock, callers, touched, runner, workers>>

CollectorIdle ==
    /\ entry = "none"
    /\ pc = "none"
    /\ stop_event = FALSE
    /\ raised = FALSE
    /\ samples = << >>
    /\ closed = << >>
    /\ last_op = "init"
    /\ flush_interval = 1
    /\ now = 0
    /\ current_event = None
    /\ pending = << >>
    /\ last_flush_time = 0
    /\ lock = None
    /\ callers = [t \in Threads |-> NoCall]
    /\ touched = [by |-> "init", op |-> "__init__", held |-> TRUE]
    /\ runner = NoRunner
    /\ workers = << >>

\* The titles and processes of the requests.
TitleDoc == <<"Doc">>
TitleMain == <<"Main">>
TitleDocChrome == <<"Doc", " ", "-", " ", "Google", " ", "Chrome">>

\* The project_mappings rows create_or_update_project_mapping has written:
\* the project name stripped and not empty, the process name stripped and
\* lowercased, the title canonical, one row per (process_name, window_title).
ProjectMappings ==
    << [project_name |-> "A", process_name |-> Some("chrome.exe"),
        window_title |-> Some(TitleDoc)],
       [project_name |-> "B", process_name |-> Some("chrome.exe"),
        window_title |-> None],
       [project_name |-> "C", process_name |-> None,
        window_title |-> Some(TitleDoc)] >>

\* Every table that holds some of these rows.
MappingTables ==
    { (IF a THEN <<ProjectMappings[1]>> ELSE << >>)
      \o (IF b THEN <<ProjectMappings[2]>> ELSE << >>)
      \o (IF c THEN <<ProjectMappings[3]>> ELSE << >>) : a, b, c \in BOOLEAN }

\* The activity_events tables the collector has written before the requests.
Stores ==
    { << >>,
      << [start_time |-> 0, end_time |-> 1, process_name |-> Some("chrome.exe"),
          window_title |-> Some(TitleDoc), is_idle |-> 0],
         [start_time |-> 1, end_time |-> 3, process_name |-> None,
          window_title |-> None, is_idle |-> 1] >>,
      << [start_time |-> 0, end_time |-> 2, process_name |-> Some("Chrome.EXE"),
          window_title |-> Some(TitleDoc), is_idle |-> 0],
         [start_time |-> 2, end_time |-> 3, process_name |-> Some("code.exe"),
          window_title |-> Some(TitleMain), is_idle |-> 0] >>,
      << [start_time |-> 0, end_time |-> 1, process_name |-> Some("chrome.exe"),
          window_title |-> Some(TitleDoc), is_idle |-> 0],
         [start_time |-> 1, end_time |-> 2, process_name |-> Some("chrome.exe"),
          window_title |-> Some(TitleMain), is_idle |-> 0] >> }

\* The bodies of the PATCH requests: per field None when the request does not
\* hold it, Some(None) for null, Some(Some(value)) for a value.
Updates ==
    [start_time : {None, Some(None), Some(Some(1))},
     end_time : {None, Some(Some(1)), Some(Some(2))},
     process_name : {None, Some(None), Some(Some("code.exe"))},
     window_title : {None, Some(None), Some(Some(TitleDocChrome))},
     is_idle : {None, Some(None), Some(Some(TRUE))}]

Days == 0..(MaxTime \div TicksPerDay)

\* The values of the query parameters start and end.
DateParams ==
    {None, Some([text |-> "empty", day |-> 0]),
     Some([text |-> "malformed", day |-> 0])}
    \cup {Some([text |-> "date", day |-> d]) : d \in Days}

\* The PATCH requests of ApiSpec: those that change what overview adds up.
NoFields ==
    [start_time |-> None, end_time |-> None, process_name |-> None,
     window_title |-> None, is_idle |-> None]

OverviewUpdates ==
    { [NoFields EXCEPT !.end_time = Some(Some(1))],
      [NoFields EXCEPT !.window_title = Some(Some(TitleDocChrome))],
      [NoFields EXCEPT !.is_idle = Some(Some(TRUE))] }

ApiInit ==
    /\ CollectorIdle
    /\ store \in Stores
    /\ mappings \in {ProjectMappings, << >>}
    /\ response = NoResponse
    /\ calls = 0

\* PATCH /api/events/{event_id} with a body out of bodies.
PatchEvent(bodies) ==
    /\ calls < MaxUpdates
    /\ \E event_id \in 1..(Len(store) + 1), updates \in bodies :
         \E store_ok \in (IF UpdateFields(updates) = {} THEN {TRUE} ELSE BOOLEAN) :
           LET r == update_event_endpoint(store, event_id, updates, store_ok)
           IN  /\ store' = r.events
               /\ response' = [op |-> "update_event", status |-> r.status,
                               event_id |-> event_id, updates |-> updates,
                               store_ok |-> store_ok, before |-> store]
    /\ calls' = calls + 1
    /\ UNCHANGED mappings
    /\ UNCHANGED collectorvars

\* GET /api/overview
GetOverview ==
    /\ \E start \in DateParams, end \in DateParams, today \in Days :
         response' = overview(store, mappings, start, end, today)
    /\ UNCHANGED <<store, mappings, calls>>
    /\ UNCHANGED collectorvars

ApiNext ==
    \/ PatchEvent(OverviewUpdates)
    \/ GetOverview

ApiSpec == ApiInit /\ [][ApiNext]_vars

\* The PATCH handler alone, on every body of Updates.
UpdateInit ==
    /\ CollectorIdle
    /\ store \in Stores
    /\ mappings = ProjectMappings
    /\ response = NoResponse
    /\ calls = 0

UpdateNext == PatchEvent(Updates)

UpdateSpec == UpdateInit /\ [][UpdateNext]_vars

\* ----------------------------------------------- the project resolver
\* _resolve_project applied to the lookup of a mappings table.
QueryProcesses ==
    {None, Some(""), Some("chrome.exe"), Some("Chrome.EXE"),
     Some(" chrome.exe "), Some("code.exe")}

QueryTitles == {None, Some(<< >>), Some(TitleDoc), Some(TitleMain)}

ResolverInit ==
    /\ CollectorIdle
    /\ store = << >>
    /\ mappings \in MappingTables
    /\ response = NoResponse
    /\ calls = 0

ResolveProject ==
    /\ \E process_name \in QueryProcesses, window_title \in QueryTitles :
         response' = [op |-> "_resolve_project",
                      process_name |-> process_name,
                      window_title |-> window_title,
                      project |-> _resolve_project(
                                      _build_project_lookup(mappings),
                                      process_name, window_title)]
    /\ UNCHANGED <<store, mappings, calls>>
    /\ UNCHANGED collectorvars

ResolverNext == ResolveProject

ResolverSpec == ResolverInit /\ [][ResolverNext]_vars

\* ----------------------------------------------- the title normaliser
\* One call of normalize_window_title on a raw title, and a second call on
\* its result, as _canonical_window_title does with the titles the collector
\* stored.  calls counts the raw titles normalised.

\* The pieces raw titles are put together from.
TitleParts ==
    { <<"Doc">>, <<" ">>, <<"-">>, <<"|">>, <<"and">>,
      <<" ", "-", " ", "Google", " ", "Chrome">>,
      <<" ", "-", " ", "Microsoft", " ", "Edge">>,
      <<" ", "and", " ", "3", " ", "more", " ", "pages">> }

\* The raw titles of at most n pieces.
RECURSIVE RawTitles(_)
RawTitles(n) ==
    IF n = 0 THEN { << >> }
    ELSE LET shorter == RawTitles(n - 1)
         IN  shorter \cup { t \o part : t \in shorter, part \in TitleParts }

\* The process names the titles come with.
TitleProcesses ==
    {None, Some("chrome.exe"), Some("Chrome.EXE"), Some("msedge.exe"),
     Some("code.exe")}

NormalizeInit ==
    /\ CollectorIdle
    /\ store = << >>
    /\ mappings = << >>
    /\ response = NoResponse
    /\ calls = 0

NormalizeTitle ==
    /\ calls = 0
    /\ calls' = 1
    /\ \E process_name \in TitleProcesses :
         \E window_title \in {None} \cup { Some(t) : t \in RawTitles(MaxParts) } :
           LET once == normalize_window_title(process_name, window_title)
           IN  response' = [op |-> "normalize_window_title",
                            process_name |-> process_name,
                            window_title |-> window_title,
                            once |-> once,
                            twice |-> normalize_window_title(process_name, once)]
    /\ UNCHANGED <<store, mappings>>
    /\ UNCHANGED collectorvars

NormalizeNext == NormalizeTitle

NormalizeSpec == NormalizeInit /\ [][NormalizeNext]_vars

\* --------------------------------------------------- CollectorRunner
\* The methods of one CollectorRunner called from the threads of the server,
\* and the collector threads it has started.  start, is_running and the
\* first part of stop run under CollectorRunner._lock and are one step each;
\* the join of stop runs after the lock is released.  calls counts the calls
\* of start and stop.

\* The variables the runner and its threads leave alone.
runnerframe == <<now, pc, stop_event, current_event, pending, last_flush_time,
                 flush_interval, raised, samples, closed, last_op, entry, lock,
                 touched, store, mappings>>

\* The collector threads that are alive.
AliveWorkers == { i \in 1..Len(workers) : workers[i].alive }

\* bool(self._thread and self._thread.is_alive())
is_running(r, w) == r.thread # None /\ w[The(r.thread)].alive

RunnerInit ==
    /\ CollectorIdle
    /\ store = << >>
    /\ mappings = << >>
    /\ response = NoResponse
    /\ calls = 0

\* CollectorRunner.start
RunnerStart(t) ==
    /\ callers[t] = NoCall
    /\ calls < MaxCalls
    /\ calls' = calls + 1
    /\ IF is_running(runner, workers)
       THEN /\ UNCHANGED <<runner, workers>>
            /\ response' = [op |-> "start", by |-> t, created |-> FALSE,
                            alive_before |-> AliveWorkers]
       ELSE /\ workers' = Append(workers, [alive |-> TRUE, stop_set |-> FALSE,
                                           ended |-> "no"])
            /\ runner' = [thread |-> Some(Len(workers) + 1),
                          stop_event |-> Some(Len(workers) + 1)]
            /\ response' = [op |-> "start", by |-> t, created |-> TRUE,
                            alive_before |-> AliveWorkers]
    /\ UNCHANGED callers
    /\ UNCHANGED runnerframe

\* CollectorRunner.stop, the block under the lock: the stop event is set and
\* the runner forgets the thread and the event.
RunnerStop(t) ==
    /\ callers[t] = NoCall
    /\ calls < MaxCalls
    /\ calls' = calls + 1
    /\ IF ~is_running(runner, workers) \/ runner.stop_event = None
       THEN /\ UNCHANGED <<runner, workers, callers>>
            /\ response' = [op |-> "stop", by |-> t, joined |-> None]
       ELSE /\ workers' = [workers EXCEPT ![The(runner.stop_event)].stop_set = TRUE]
            /\ runner' = NoRunner
            /\ callers' = [callers EXCEPT ![t] =
                               [at |-> "join", thread |-> The(runner.thread)]]
            /\ UNCHANGED response
    /\ UNCHANGED runnerframe

\* thread.join(timeout=10) returns: the thread has ended, or the ten seconds
\* are over and it is still alive.
RunnerJoin(t) ==
    /\ callers[t].at = "join"
    /\ callers' = [callers EXCEPT ![t] = NoCall]
    /\ response' = [op |-> "stop", by |-> t, joined |-> Some(callers[t].thread),
                    timed_out |-> workers[callers[t].thread].alive]
    /\ UNCHANGED <<runner, workers, calls>>
    /\ UNCHANGED runnerframe

\* GET /api/status
GetStatus(t) ==
    /\ callers[t] = NoCall
    /\ response' = [op |-> "status", by |-> t,
                    collector_running |-> is_running(runner, workers),
                    alive |-> AliveWorkers]
    /\ UNCHANGED <<runner, workers, calls, callers>>
    /\ UNCHANGED runnerframe

\* A collector thread whose stop event is set leaves _run_loop, makes its
\* forced flush and ends.
WorkerStops(i) ==
    /\ workers[i].alive
    /\ workers[i].stop_set
    /\ workers' = [workers EXCEPT ![i] = [@ EXCEPT !.alive = FALSE,
                                                  !.ended = "stopped"]]
    /\ UNCHANGED <<runner, calls, callers, response>>
    /\ UNCHANGED runnerframe

\* An exception leaves run_until_stopped and the collector thread ends.
WorkerDies(i) ==
    /\ workers[i].alive
    /\ workers' = [workers EXCEPT ![i] = [@ EXCEPT !.alive = FALSE,
                                                  !.ended = "error"]]
    /\ UNCHANGED <<runner, calls, callers, response>>
    /\ UNCHANGED runnerframe

RunnerNext ==
    \/ \E t \in Threads : RunnerStart(t)
    \/ \E t \in Threads : RunnerStop(t)
    \/ \E t \in Threads : RunnerJoin(t)
    \/ \E t \in Threads : GetStatus(t)
    \/ \E i \in 1..Len(workers) : WorkerStops(i)
    \/ \E i \in 1..Len(workers) : WorkerDies(i)

RunnerSpec == RunnerInit /\ [][RunnerNext]_vars

\* ------------------------------------------------ the wall clock
\* The calls the sampler makes, sample_once, flush_if_needed and the forced
\* flush, with a clock that is not monotone: datetime.now() is the naive
\* local time of the machine, which steps back when the clock is set or
\* daylight saving time ends.  Every reading is any tick.  calls counts the
\* calls.

\* The variables the calls leave alone.
clockframe == <<pc, stop_event, flush_interval, raised, samples, closed,
                last_op, entry, lock, callers, touched, mappings, response,
                runner, workers>>

ClockInit ==
    /\ CollectorIdle
    /\ store = << >>
    /\ mappings = << >>
    /\ response = NoResponse
    /\ calls = 0

\* sample_once
ClockSampleOnce ==
    /\ calls < MaxCalls
    /\ calls' = calls + 1
    /\ \E timestamp \in 0..MaxTime, query \in {"idle", "active"}, window \in Windows :
         LET a == SampleArgs(query, Some(window), TRUE)
             c == _create_or_extend_event(
                      [current_event |-> current_event, pending |-> pending],
                      timestamp, a.process_name, a.window_title, a.is_idle)
         IN  /\ now' = timestamp
             /\ current_event' = c.current_event
             /\ pending' = c.pending
    /\ UNCHANGED <<last_flush_time, store>>
    /\ UNCHANGED clockframe

\* flush_if_needed; the write succeeds.
ClockFlushIfNeeded ==
    /\ calls < MaxCalls
    /\ calls' = calls + 1
    /\ \E read \in 0..MaxTime, done_at \in 0..MaxTime :
         IF ShouldFlush(pending, last_flush_time, flush_interval, read)
         THEN LET f == _flush_locked(
                           [pending |-> pending, store |-> store,
                            last_flush_time |-> last_flush_time,
                            raised |-> FALSE], Len(pending), done_at)
              IN  /\ pending' = f.pending
                  /\ store' = f.store
                  /\ last_flush_time' = f.last_flush_time
                  /\ now' = done_at
         ELSE /\ now' = read
              /\ UNCHANGED <<pending, store, last_flush_time>>
    /\ UNCHANGED current_event
    /\ UNCHANGED clockframe

\* flush(force=True); the write succeeds.
ClockFlush ==
    /\ calls < MaxCalls
    /\ calls' = calls + 1
    /\ \E read \in 0..MaxTime, done_at \in 0..MaxTime :
         LET c == ForceClose([current_event |-> current_event,
                              pending |-> pending], TRUE, read)
             f == _flush_locked(
                      [pending |-> c.pending, store |-> store,
                       last_flush_time |-> last_flush_time,
                       raised |-> FALSE], Len(c.pending), done_at)
         IN  /\ current_event' = c.current_event
             /\ pending' = f.pending
             /\ store' = f.store
             /\ last_flush_time' = f.last_flush_time
             /\ now' = IF c.pending = << >>
                       THEN (IF current_event = None THEN now ELSE read)
                       ELSE done_at
    /\ UNCHANGED clockframe

ClockNext ==
    \/ ClockSampleOnce
    \/ ClockFlushIfNeeded
    \/ ClockFlush

ClockSpec == ClockInit /\ [][ClockNext]_vars

\* ------------------------------------------------ the daily summaries
\* GET /api/summary, GET /api/events and SummaryPrinter.print_daily_summary
\* on a store whose events start on either side of a midnight.  calls counts
\* the requests.

\* The events of the stores: two active events of equal length, an active
\* event without a process that starts before midnight and ends after it, an
\* idle event, an event of the second day and one that ends at midnight.
SummaryEvents ==
    { [start_time |-> 0, end_time |-> 1, process_name |-> Some("chrome.exe"),
       window_title |-> Some(TitleDoc), is_idle |-> 0],
      [start_time |-> 0, end_time |-> 1, process_name |-> Some("code.exe"),
       window_title |-> Some(TitleMain), is_idle |-> 0],
      [start_time |-> TicksPerDay - 1, end_time |-> TicksPerDay + 1,
       process_name |-> None, window_title |-> None, is_idle |-> 0],
      [start_time |-> 0, end_time |-> 1, process_name |-> None,
       window_title |-> None, is_idle |-> 1],
      [start_time |-> TicksPerDay, end_time |-> TicksPerDay + 1,
       process_name |-> Some("chrome.exe"), window_title |-> Some(TitleMain),
       is_idle |-> 0],
      [start_time |-> TicksPerDay - 1, end_time |-> TicksPerDay,
       process_name |-> Some("code.exe"), window_title |-> Some(TitleMain),
       is_idle |-> 0] }

\* The stores of at most n of these events.
RECURSIVE SummaryStores(_)
SummaryStores(n) ==
    IF n = 0 THEN { << >> }
    ELSE LET fewer == SummaryStores(n - 1)
         IN  fewer \cup { Append(rows, e) : rows \in fewer, e \in SummaryEvents }

SummaryInit ==
    /\ CollectorIdle
    /\ store \in SummaryStores(MaxEvents)
    /\ mappings = << >>
    /\ response = NoResponse
    /\ calls = 0

\* GET /api/summary
GetSummary ==
    /\ calls = 0
    /\ calls' = 1
    /\ \E date \in DateParams, today \in Days :
         LET target_day == _parse_date(date, today)
         IN  IF target_day = None
             THEN response' = [op |-> "summary", status |-> 400]
             ELSE \E rows \in fetch_summary_by_day(store, The(target_day)) :
                    response' =
                        [op |-> "summary", status |-> 200,
                         date |-> The(target_day),
                         totals |->
                             [active_seconds |-> SecondsWhere(rows, 0),
                              idle_seconds |-> SecondsWhere(rows, 1)],
                         entries |-> rows]
    /\ UNCHANGED <<store, mappings>>
    /\ UNCHANGED collectorvars

\* GET /api/events
GetEvents ==
    /\ calls = 0
    /\ calls' = 1
    /\ \E date \in DateParams, today \in Days :
         LET target_day == _parse_date(date, today)
         IN  IF target_day = None
             THEN response' = [op |-> "events", status |-> 400]
             ELSE \E rows \in fetch_events_for_day(store, The(target_day)) :
                    response' = [op |-> "events", status |-> 200,
                                 date |-> The(target_day), events |-> rows]
    /\ UNCHANGED <<store, mappings>>
    /\ UNCHANGED collectorvars

\* SummaryPrinter.print_daily_summary
PrintDailySummary ==
    /\ calls = 0
    /\ calls' = 1
    /\ \E day \in Days :
         \E rows \in fetch_summary_by_day(store, day) :
           response' =
               IF rows = << >>
               THEN [op |-> "print_daily_summary", day |-> day, rows |-> rows,
                     by_process |-> << >>, top_windows |-> << >>]
               ELSE [op |-> "print_daily_summary", day |-> day, rows |-> rows,
                     by_process |-> aggregate_by_process(rows),
                     top_windows |-> aggregate_top_windows(rows)]
    /\ UNCHANGED <<store, mappings>>
    /\ UNCHANGED collectorvars

SummaryNext ==
    \/ GetSummary
    \/ GetEvents
    \/ PrintDailySummary

SummarySpec == SummaryInit /\ [][SummaryNext]_vars

\* --------------------------------------------------- CollectorSettings
\* The settings the commands collect and web build with
\* CollectorSettings.from_intervals.  Intervals are whole seconds and whole
\* minutes; a timedelta is its length in seconds.

\* timedelta(seconds=s) and timedelta(minutes=m)
timedelta_seconds(s) == s
timedelta_minutes(m) == m * 60

Max(a, b) == IF a >= b THEN a ELSE b

\* min= of the options --interval and --flush-interval
MinSampleSeconds == 1
MinFlushSeconds == 10

\* The multiple of the sample interval and the least number of seconds the
\* defaulted flush interval is, and the least number of minutes the
\* defaulted sleep gap is.
FlushFactor == 6
FlushFloor == 30
SleepGapFloor == 2

\* CollectorSettings.from_intervals
from_intervals(sample_seconds, idle_minutes, flush_seconds, sleep_gap_minutes) ==
    LET flush == IF flush_seconds # None THEN The(flush_seconds)
                 ELSE Max(sample_seconds * FlushFactor, FlushFloor)
        sleep_gap == IF sleep_gap_minutes # None THEN The(sleep_gap_minutes)
                     ELSE Max(idle_minutes, SleepGapFloor)
    IN  [sample_interval |-> timedelta_seconds(sample_seconds),
         idle_threshold |-> timedelta_minutes(idle_minutes),
         flush_interval |-> timedelta_seconds(flush),
         sleep_gap |-> timedelta_minutes(sleep_gap)]

\* The values the options take.
SampleSecondsOptions == MinSampleSeconds..MaxSampleSeconds
IdleMinutesOptions == 1..MaxIdleMinutes
FlushSecondsOptions ==
    {None} \cup { Some(f) : f \in MinFlushSeconds..MaxFlushSeconds }

SettingsInit ==
    /\ CollectorIdle
    /\ store = << >>
    /\ mappings = << >>
    /\ response = NoResponse
    /\ calls = 0

\* The command collect: no flush interval is passed.
CollectCommand ==
    /\ calls = 0
    /\ calls' = 1
    /\ \E sample_seconds \in SampleSecondsOptions, idle_minutes \in IdleMinutesOptions :
         response' = [op |-> "collect",
                      sample_seconds |-> sample_seconds,
                      idle_minutes |-> idle_minutes,
                      flush_seconds |-> None,
                      settings |-> from_intervals(sample_seconds, idle_minutes,
                                                  None, None)]
    /\ UNCHANGED <<store, mappings>>
    /\ UNCHANGED collectorvars

\* The command web: --flush-interval is passed on, given or not.
WebCommand ==
    /\ calls = 0
    /\ calls' = 1
    /\ \E sample_seconds \in SampleSecondsOptions, idle_minutes \in IdleMinutesOptions :
         \E flush_seconds \in FlushSecondsOptions :
           response' = [op |-> "web",
                        sample_seconds |-> sample_seconds,
                        idle_minutes |-> idle_minutes,
                        flush_seconds |-> flush_seconds,
                        settings |-> from_intervals(sample_seconds, idle_minutes,
                                                    flush_seconds, None)]
    /\ UNCHANGED <<store, mappings>>
    /\ UNCHANGED collectorvars

SettingsNext ==
    \/ CollectCommand
    \/ WebCommand

SettingsSpec == SettingsInit /\ [][SettingsNext]_vars

\* ------------------------------------------------- notions of the claims
Triple(x) == <<x.process_name, x.window_title, x.is_idle>>

Last(s) == s[Len(s)]

\* The maximal runs of consecutive samples with the same triple, in order:
\* the timestamps of a run's first and last sample, and its triple.
RECURSIVE Runs(_)
Runs(ss) ==
    IF ss = << >> THEN << >>
    ELSE LET rest == Runs(SubSeq(ss, 1, Len(ss) - 1))
             s == Last(ss)
         IN  IF rest # << >> /\ Last(rest).triple = Triple(s)
             THEN [rest EXCEPT ![Len(rest)].last = s.timestamp]
             ELSE Append(rest, [first |-> s.timestamp, last |-> s.timestamp,
                                triple |-> Triple(s)])

RECURSIVE SumDurations(_)
SumDurations(rows) ==
    IF rows = << >> THEN 0
    ELSE (Head(rows).end_time - Head(rows).start_time) + SumDurations(Tail(rows))

\* The rows are in start_time order and each ends where the next one starts.
IsChain(rows) ==
    \A i \in 1..(Len(rows) - 1) :
        /\ rows[i].start_time <= rows[i + 1].start_time
        /\ rows[i].end_time = rows[i + 1].start_time

\* The run took a sample and its forced flush wrote the buffer.
ForceFlushedRun ==
    pc = "done" /\ last_op = "force_flushed" /\ samples # << >>

\* C1 (the claim as stated): after N >= 1 samples and a forced flush, the
\* persisted rows form a chain without gap or overlap from the first sample's
\* timestamp to the forced-flush time (the end_time the forced flush gave the
\* last event), so their durations sum to the elapsed time of the run.
C1_FlushNeverLosesEvents ==
    ForceFlushedRun =>
        /\ store # << >>
        /\ IsChain(store)
        /\ store[1].start_time = samples[1].timestamp
        /\ Last(store).end_time = Last(closed).end_time
        /\ SumDurations(store) = Last(closed).end_time - samples[1].timestamp

\* C2 (the claim as stated): an event closed by a change of state ends at the
\* timestamp of the last sample of its run.
C2_EndIsLastSampleOfRun ==
    LET r == Runs(samples)
    IN  \A k \in 1..Len(closed) :
            k < Len(r) =>
                /\ closed[k].start_time = r[k].first
                /\ closed[k].end_time = r[k].last

\* C2 (amended): the events the Segmenter closes are, in order, one per
\* maximal run of samples with the same triple; the event of a run carries the
\* run's triple, starts at the run's first sample and ends at the first sample
\* of the next run (the sample that changed the state), or, for the last run,
\* at the forced flush; until then the last run is the open event, from the
\* run's first to its last sample.
C2_OneEventPerRun ==
    LET r == Runs(samples)
        n == Len(closed)
    IN  /\ n = Len(r) - (IF current_event # None THEN 1 ELSE 0)
        /\ \A k \in 1..n :
               /\ Triple(closed[k]) = r[k].triple
               /\ closed[k].start_time = r[k].first
               /\ IF k < Len(r)
                  THEN closed[k].end_time = r[k + 1].first
                  ELSE closed[k].end_time >= r[k].last
        /\ current_event # None =>
               /\ Triple(The(current_event)) = Last(r).triple
               /\ The(current_event).start_time = Last(r).first
               /\ The(current_event).end_time = Last(r).last

\* C2 witness: a run of several samples has been closed by a change of state.
C2_Witness ==
    LET r == Runs(samples)
    IN  Len(r) >= 2 /\ r[1].last > r[1].first /\ Len(closed) >= 1

\* A step of sample_once.
SampleStep == pc = "sample_once" /\ pc' = "flush_if_needed"

\* C3: a sample whose triple equals the open event's (absent = absent) only
\* sets the open event's end_time to the sample's timestamp: its start_time
\* and triple, the buffer, last_flush_time and the store stay as they are and
\* no event is closed.
C3_MatchingSampleOnlyExtends ==
    [][ ( /\ SampleStep
          /\ current_event # None
          /\ Triple(The(current_event)) = Triple(Last(samples')) )
        => /\ current_event' =
                  Some([The(current_event) EXCEPT
                            !.end_time = Last(samples').timestamp])
           /\ UNCHANGED <<pending, last_flush_time, store, closed>> ]_vars

\* C3 witness: an open event without process and title has been extended by
\* a later sample without process and title.
C3_Witness ==
    /\ last_op = "extend"
    /\ The(current_event).process_name = None
    /\ The(current_event).window_title = None
    /\ The(current_event).end_time > The(current_event).start_time
    /\ The(current_event).end_time = Last(samples).timestamp

\* C4: a sample whose triple differs from the open event's closes the open
\* event at the sample's timestamp and appends it as the last element of the
\* buffer, and opens an event with start_time = end_time = timestamp and the
\* new triple; without an open event only the new event is opened and the
\* buffer stays as it is.
C4_ChangeClosesAndOpens ==
    [][ ( /\ SampleStep
          /\ \/ current_event = None
             \/ Triple(The(current_event)) # Triple(Last(samples')) )
        => LET a == Last(samples')
           IN  /\ current_event' =
                      Some([start_time |-> a.timestamp,
                            end_time |-> a.timestamp,
                            process_name |-> a.process_name,
                            window_title |-> a.window_title,
                            is_idle |-> a.is_idle])
               /\ pending' =
                      IF current_event = None THEN pending
                      ELSE Append(pending,
                                  [The(current_event) EXCEPT
                                       !.end_time = a.timestamp]) ]_vars

\* C4 witness: a change of state has closed an event behind an event already
\* in the buffer.
C4_Witness ==
    /\ last_op = "transition"
    /\ Len(pending) >= 2
    /\ Last(pending).end_time = Last(samples).timestamp
    /\ The(current_event).start_time = Last(samples).timestamp

\* The number of maximal runs of consecutive idle samples.
RECURSIVE IdleRunCount(_)
IdleRunCount(ss) ==
    IF ss = << >> THEN 0
    ELSE IdleRunCount(SubSeq(ss, 1, Len(ss) - 1))
         + (IF Last(ss).is_idle /\ (Len(ss) = 1 \/ ~ss[Len(ss) - 1].is_idle)
            THEN 1 ELSE 0)

\* The number of idle events the Segmenter has made: closed ones and the open
\* one.
IdleEventCount ==
    Cardinality({k \in 1..Len(closed) : closed[k].is_idle})
    + (IF current_event # None /\ The(current_event).is_idle THEN 1 ELSE 0)

\* C5: an idle sample carries neither process nor title, whatever window is
\* in the foreground, and every run of consecutive idle samples makes exactly
\* one idle event.
C5_IdleNeverFragmented ==
    /\ \A i \in 1..Len(samples) :
           samples[i].is_idle =>
               samples[i].process_name = None /\ samples[i].window_title = None
    /\ \A k \in 1..Len(closed) :
           closed[k].is_idle =>
               closed[k].process_name = None /\ closed[k].window_title = None
    /\ IdleEventCount = IdleRunCount(samples)

\* C5 witness: two consecutive idle samples, and the idle event of their run
\* has been closed.
C5_Witness ==
    \E i \in 1..(Len(samples) - 1) :
        /\ samples[i].is_idle /\ samples[i + 1].is_idle
        /\ \E k \in 1..Len(closed) :
               /\ closed[k].is_idle
               /\ closed[k].start_time <= samples[i].timestamp
               /\ closed[k].end_time > samples[i + 1].timestamp

\* C6 (the claim as stated, for a sample taken while an event is open): a
\* sample whose probe failed (the idle query, or the lookup of the foreground
\* process) does not close the open event and does not change its triple.
C6_ProbeFailureIsNoObservation ==
    [][ ( /\ SampleStep
          /\ current_event # None
          /\ Last(samples').probe_failed )
        => /\ closed' = closed
           /\ pending' = pending
           /\ current_event' # None
           /\ Triple(The(current_event')) = Triple(The(current_event))
           /\ The(current_event').start_time = The(current_event).start_time
      ]_vars

\* A step of flush_if_needed, and of _shutdown.
FlushIfNeededStep ==
    /\ pc = "flush_if_needed"
    /\ pc' # "flush_if_needed"
    /\ last_op' # "interrupt"
ShutdownStep == pc = "shutdown" /\ pc' = "done"

\* C7: flush_if_needed writes the buffer to the store exactly when the buffer
\* is not empty and now - last_flush_time >= flush_interval (the write either
\* stores every buffered row, empties the buffer and resets the timestamp, or
\* raises after a proper prefix of the rows); otherwise the buffer,
\* last_flush_time and the store stay as they are.
C7_TimeBasedFlushPolicy ==
    [][ FlushIfNeededStep =>
          IF pending # << >> /\ now - last_flush_time >= flush_interval
          THEN \/ /\ ~raised'
                  /\ store' = store \o EventRows(pending)
                  /\ pending' = << >>
                  /\ last_flush_time' = now'
                  /\ now' >= now
                  /\ pc' = "wait"
               \/ /\ raised'
                  /\ \E k \in 0..(Len(pending) - 1) :
                         store' = store \o SubSeq(EventRows(pending), 1, k)
          ELSE /\ UNCHANGED <<pending, last_flush_time, store>>
               /\ ~raised'
               /\ pc' = "wait" ]_vars

\* C7 witness: a time-based flush has written the buffer while an event is
\* open.
C7_Witness ==
    /\ last_op = "flushed"
    /\ pc = "wait"
    /\ pending = << >>
    /\ store = EventRows(closed)
    /\ store # << >>
    /\ current_event # None

\* C8: a flush that finds nothing to write (an empty buffer, and for the
\* forced flush no open event either) changes nothing; last_flush_time changes
\* only in a step that writes rows; so a flush_if_needed that finds a
\* non-empty buffer with the interval elapsed writes it, however many empty
\* flushes came before.
C8_EmptyFlushIsNoOp ==
    [][ /\ ( \/ FlushIfNeededStep /\ pending = << >>
             \/ ShutdownStep /\ pending = << >> /\ current_event = None )
           => UNCHANGED <<pending, last_flush_time, store, raised, now>>
        /\ last_flush_time' # last_flush_time => Len(store') > Len(store)
        /\ ( /\ FlushIfNeededStep
             /\ pending # << >>
             /\ now - last_flush_time >= flush_interval
             /\ ~raised' )
           => pending' = << >> /\ Len(store') = Len(store) + Len(pending)
      ]_vars

\* C8 witness: the interval had elapsed at a flush_if_needed that found the
\* buffer empty, and the next flush_if_needed, the first one to find an event
\* in the buffer, has written it.
C8_Witness ==
    /\ last_op = "flushed"
    /\ Len(samples) >= 3
    /\ Len(closed) = 1
    /\ Len(store) = 1
    /\ closed[1].end_time = Last(samples).timestamp
    /\ samples[Len(samples) - 1].timestamp >= flush_interval

\* C9: when the batched write of a flush raises, the buffer holds the events
\* it held at the attempt, in the same order, and last_flush_time is not
\* reset; the next flush attempt (the forced flush) writes all of them.
C9_FailedFlushKeepsBuffer ==
    [][ LET attempt == ForceClose([current_event |-> current_event,
                                   pending |-> pending], TRUE, now).pending
        IN  /\ (FlushIfNeededStep /\ raised')
               => pending' = pending /\ last_flush_time' = last_flush_time
            /\ (ShutdownStep /\ pending' # << >>)
               => /\ pending' = attempt
                  /\ SubSeq(pending', 1, Len(pending)) = pending
                  /\ last_flush_time' = last_flush_time
            /\ (ShutdownStep /\ raised /\ pending' = << >>)
               => /\ SubSeq(attempt, 1, Len(pending)) = pending
                  /\ store' = store \o EventRows(attempt)
      ]_vars

\* C9 witness: a time-based flush raised with several events in the buffer,
\* and the forced flush that followed has written them.
C9_Witness ==
    /\ pc = "done"
    /\ raised
    /\ last_op = "force_flushed"
    /\ pending = << >>
    /\ Len(closed) >= 3

\* C10 (the claim as stated): a store failure in the time-based flush of the
\* loop does not end sampling: the loop goes on to its wait.
C10_FailedFlushKeepsSampling ==
    [][ (FlushIfNeededStep /\ raised') => pc' = "wait" ]_vars

\* The buffer the forced flush hands to insert_events: the buffer with the
\* open event, closed at now, behind it.
ForcedBatch ==
    ForceClose([current_event |-> current_event, pending |-> pending],
               TRUE, now).pending

\* C11: however the run ends (stop event, KeyboardInterrupt, an exception out
\* of the loop), the forced flush happens once: it closes the open event with
\* end_time = now, enqueues it and empties the open slot, the whole buffer
\* reaches the store as one batch or no row of it does, and after it the run
\* takes no sample and flushes no more.
C11_ForcedFlushOnceWholeBatch ==
    [][ /\ ShutdownStep =>
             /\ current_event' = None
             /\ current_event # None =>
                  /\ closed' = Append(closed, Last(ForcedBatch))
                  /\ Last(ForcedBatch).end_time = now
             /\ \/ store' = store \o EventRows(ForcedBatch)
                \/ store' = store
        /\ pc = "done" =>
             /\ pc' = "done"
             /\ samples' = samples
             /\ store' = store
      ]_vars

\* The part of C11 that does not depend on the write: the forced flush runs
\* once, closes the open event at now and no sample follows it.
C11_ForcedFlushOnce ==
    [][ /\ ShutdownStep =>
             /\ current_event' = None
             /\ current_event # None =>
                  /\ closed' = Append(closed, Last(ForcedBatch))
                  /\ Last(ForcedBatch).end_time = now
        /\ pc = "done" =>
             /\ pc' = "done"
             /\ samples' = samples
             /\ store' = store
      ]_vars

\* C12: at most one sample is taken after the stop event was set.
C12_AtMostOneSampleAfterStop ==
    Cardinality({i \in 1..Len(samples) : samples[i].stop_was_set}) <= 1

\* A sample was taken although the stop event was already set.
C12_Witness ==
    \E i \in 1..Len(samples) : samples[i].stop_was_set

\* The threads inside a `with self._lock:` block.
InCriticalSection == {t \in Threads : callers[t].at \in Inside}

MappedProject(process_key, title_key) ==
    LET hit == {i \in 1..Len(mappings) :
                   /\ mappings[i].process_name = process_key
                   /\ mappings[i].window_title = title_key}
    IN  IF hit = {} THEN None
        ELSE Some(mappings[CHOOSE i \in hit : TRUE].project_name)

\* C14: _resolve_project answers the project of the first mapping that exists
\* among (process_key, title_key), (process_key, null), (null, title_key),
\* with process_key the trimmed and lowercased process name, and absent when
\* there is none; with the table {(proc,X)->A, (proc,null)->B, (null,X)->C}
\* the four examples come out A, B, C and absent; the letter case of the
\* queried process name does not matter.
C14_ResolverPrecedence ==
    response.op = "_resolve_project" =>
      LET process_key == _normalize_process_name(response.process_name)
          title_key == TitleKey(response.window_title)
          exact == MappedProject(process_key, title_key)
          byProcess == MappedProject(process_key, None)
          byTitle == MappedProject(None, title_key)
          query == <<response.process_name, response.window_title>>
      IN  /\ response.project =
                IF exact # None THEN exact
                ELSE IF byProcess # None THEN byProcess
                ELSE byTitle
          /\ mappings = ProjectMappings =>
               /\ query = <<Some("chrome.exe"), Some(TitleDoc)>>
                    => response.project = Some("A")
               /\ query = <<Some("chrome.exe"), Some(TitleMain)>>
                    => response.project = Some("B")
               /\ query = <<Some("code.exe"), Some(TitleDoc)>>
                    => response.project = Some("C")
               /\ query = <<Some("code.exe"), Some(TitleMain)>>
                    => response.project = None
          /\ response.process_name \in {Some("Chrome.EXE"), Some(" chrome.exe ")}
               => response.project =
                    _resolve_project(_build_project_lookup(mappings),
                                     Some("chrome.exe"), response.window_title)

\* The table holds the process-only and the title-only mapping but not the
\* exact one, and a query that names the process in another letter case and
\* the mapped title got the project of the process-only mapping.
C14_Witness ==
    /\ response.op = "_resolve_project"
    /\ mappings = <<ProjectMappings[2], ProjectMappings[3]>>
    /\ response.process_name = Some("Chrome.EXE")
    /\ response.window_title = Some(TitleDoc)
    /\ response.project = Some("B")

RECURSIVE SumSeconds(_)
SumSeconds(items) ==
    IF items = << >> THEN 0
    ELSE Head(items).seconds + SumSeconds(Tail(items))

\* An overview request has been answered with a payload.
OverviewAnswered == response.op = "overview" /\ response.status = 200

\* The part of C15 about which buckets a project total adds up: an active
\* entry carries the project its bucket resolves to, an idle entry none, and
\* the total of a project is the sum of the active entries that carry it.
C15_ProjectTotalsAreSums ==
    OverviewAnswered =>
      LET payload == response.payload
          lookup == _build_project_lookup(mappings)
          entriesOf(project) ==
              SelectSeq(payload.entries,
                        LAMBDA item : item.project_name = Some(project))
      IN  /\ \A i \in 1..Len(payload.entries) :
               LET item == payload.entries[i]
               IN  /\ ~item.is_idle
                   /\ item.project_name =
                        _resolve_project(lookup, item.process_name,
                                         item.window_title)
          /\ \A i \in 1..Len(payload.idle_entries) :
               /\ payload.idle_entries[i].is_idle
               /\ payload.idle_entries[i].project_name = None
          /\ \A i \in 1..Len(payload.project_totals) :
               LET total == payload.project_totals[i]
               IN  /\ entriesOf(total.project_name) # << >>
                   /\ total.seconds = SumSeconds(entriesOf(total.project_name))
                   /\ \A j \in 1..Len(payload.project_totals) :
                        payload.project_totals[j].project_name = total.project_name
                          => j = i
          /\ \A i \in 1..Len(payload.entries) :
               payload.entries[i].project_name # None =>
                 \E j \in 1..Len(payload.project_totals) :
                    Some(payload.project_totals[j].project_name)
                      = payload.entries[i].project_name

\* C15: in overview the total of a project is the sum of the seconds of the
\* active buckets that resolve to it, idle buckets carry no project, active
\* buckets without a project are left out of the project totals but stay in
\* the entries, and so the project totals together never exceed
\* active_seconds.
C15_ProjectTotalsWithinActive ==
    /\ C15_ProjectTotalsAreSums
    /\ OverviewAnswered =>
         SumSeconds(response.payload.project_totals)
           <= response.payload.totals.active_seconds

\* A day with one active Chrome interval of 3600 s and one idle interval of
\* 1800 s, in seconds.
ExampleDay ==
    << [start_time |-> 0, end_time |-> 3600, process_name |-> Some("chrome.exe"),
        window_title |-> Some(TitleDoc), is_idle |-> 0],
       [start_time |-> 3600, end_time |-> 5400, process_name |-> None,
        window_title |-> None, is_idle |-> 1] >>

\* C16: active_seconds is the sum over the non-idle buckets and idle_seconds
\* the sum over the idle ones; the rows of the store are merged into buckets,
\* one per (process_name, canonical title, is_idle), without losing time:
\* active_seconds + idle_seconds = overall_seconds = the sum of the seconds of
\* the rows the store returned; entries holds only non-idle rows; the example
\* day gives 3600 / 1800 and one entry.
C16_OverviewConservesTime ==
    /\ OverviewAnswered =>
         LET payload == response.payload
             bucket(item) == <<item.process_name, item.window_title>>
         IN  /\ payload.totals.active_seconds = SumSeconds(payload.entries)
             /\ payload.totals.idle_seconds = SumSeconds(payload.idle_entries)
             /\ payload.totals.overall_seconds
                  = payload.totals.active_seconds + payload.totals.idle_seconds
             /\ payload.totals.overall_seconds = SumSeconds(response.rows)
             /\ \A i \in 1..Len(payload.entries) : ~payload.entries[i].is_idle
             /\ \A i \in 1..Len(payload.idle_entries) :
                  payload.idle_entries[i].is_idle
             /\ \A i, j \in 1..Len(payload.entries) :
                  bucket(payload.entries[i]) = bucket(payload.entries[j]) => i = j
             /\ \A i, j \in 1..Len(payload.idle_entries) :
                  bucket(payload.idle_entries[i]) = bucket(payload.idle_entries[j])
                    => i = j
             /\ \A i \in 1..Len(response.rows) :
                  LET row == response.rows[i]
                      title == _canonical_window_title(row.process_name,
                                                       row.window_title)
                      list == IF row.is_idle # 0 THEN payload.idle_entries
                              ELSE payload.entries
                  IN  \E k \in 1..Len(list) :
                         bucket(list[k]) = <<row.process_name, title>>
    /\ LET example == OverviewPayload(
                          fetch_activity_totals(ExampleDay, 0, 86400),
                          mappings)
       IN  /\ example.totals.active_seconds = 3600
           /\ example.totals.idle_seconds = 1800
           /\ Len(example.entries) = 1
           /\ ~example.entries[1].is_idle

\* The store returned two active rows whose titles have the same canonical
\* title, and overview merged them into one entry with the seconds of both.
C16_Witness ==
    /\ OverviewAnswered
    /\ Len(response.rows) = 2
    /\ Len(response.payload.entries) = 1
    /\ response.payload.idle_entries = << >>
    /\ response.rows[1].seconds > 0
    /\ response.rows[2].seconds > 0
    /\ response.payload.entries[1].seconds
         = response.rows[1].seconds + response.rows[2].seconds

\* A PATCH request has been answered; Target is the event it names, before
\* and after the request, when the store holds it.
PatchAnswered == response.op = "update_event"
TargetExists == response.event_id \in 1..Len(response.before)
TargetBefore == response.before[response.event_id]
TargetAfter == store[response.event_id]

\* The fields the request supplies.
Supplied == {k \in DOMAIN response.updates : response.updates[k] # None}

\* The stored event holds the value the request supplies for field k.
Written(k) ==
    LET value == The(response.updates[k])
    IN  IF k \in {"process_name", "window_title"} THEN TargetAfter[k] = value
        ELSE /\ value # None
             /\ TargetAfter[k] = IF k = "is_idle"
                                 THEN (IF The(value) THEN 1 ELSE 0)
                                 ELSE The(value)

\* C17: a PATCH that supplies start_time, end_time or both and would leave
\* the event with end_time <= start_time is rejected, and a rejected request
\* leaves the store as it was; so an event edited in its bounds has
\* end_time > start_time.
C17_UpdateKeepsEndAfterStart ==
    PatchAnswered =>
      /\ response.status # 200 => store = response.before
      /\ ( /\ response.status = 200
           /\ ( \/ response.updates.start_time # None
                \/ response.updates.end_time # None ) )
         => TargetAfter.end_time > TargetAfter.start_time

\* C18: a PATCH that supplies several fields writes all of them to the
\* stored event or none of them.
C18_UpdateAllOrNothing ==
    (PatchAnswered /\ TargetExists /\ Cardinality(Supplied) >= 2) =>
      \/ \A k \in Supplied : Written(k)
      \/ store = response.before

\* C19 as stated: a PATCH of an id the store does not hold is answered
\* not-found and changes no event, whatever the payload (the UPDATE statement
\* itself not failing).
C19_MissingIdIsNotFound ==
    (PatchAnswered /\ ~TargetExists /\ response.store_ok) =>
      /\ response.status = 404
      /\ store = response.before

\* C19, amended: a PATCH of an id the store does not hold never succeeds and
\* changes no event, whatever the payload, the empty one included: it is
\* answered not-found, except that a payload with both bounds is checked
\* first (a validation error when end_time <= start_time, a server error
\* when a bound is null) and a failing UPDATE is a server error.
C19_MissingIdNeverSucceeds ==
    (PatchAnswered /\ ~TargetExists) =>
      LET updates == response.updates
          both == updates.start_time # None /\ updates.end_time # None
          nullBound == both /\ ( \/ The(updates.start_time) = None
                                 \/ The(updates.end_time) = None )
          badRange == /\ both
                      /\ ~nullBound
                      /\ The(The(updates.end_time)) <= The(The(updates.start_time))
      IN  /\ store = response.before
          /\ response.status # 200
          /\ response.status = IF nullBound THEN 500
                               ELSE IF badRange THEN 400
                               ELSE IF ~response.store_ok THEN 500
                               ELSE 404

\* A PATCH that supplies no field at all, for an id the store does not hold,
\* was answered not-found.
C19_Witness ==
    /\ PatchAnswered
    /\ response.before # << >>
    /\ response.event_id = Len(response.before) + 1
    /\ response.updates = NoFields
    /\ response.status = 404
    /\ store = response.before

\* The days an overview request asks for: start defaults to today, end to the
\* start day.
AskedStart ==
    IF response.start # None /\ The(response.start).text = "date"
    THEN The(response.start).day ELSE response.today

AskedEnd ==
    IF response.end # None /\ The(response.end).text = "date"
    THEN The(response.end).day ELSE AskedStart

WellFormed(value) == value = None \/ The(value).text # "malformed"

\* C20: overview with an end day before the start day is rejected with a
\* validation error and has issued no store query by then; with an end day
\* on or after the start day, or no end at all, it is never rejected for its
\* range.
C20_OverviewRangeCheck ==
    response.op = "overview" =>
      /\ response.status # 200 => response.queries = 0
      /\ (WellFormed(response.start) /\ WellFormed(response.end)) =>
           /\ AskedEnd < AskedStart =>
                /\ response.status = 400
                /\ response.detail = "end date must be on or after start date"
           /\ AskedEnd >= AskedStart =>
                /\ response.status = 200
                /\ response.start_day = AskedStart
                /\ response.end_day = AskedEnd
      /\ (WellFormed(response.start) /\ response.end = None) =>
           response.status = 200

\* An overview request for a range that ends the day before it starts was
\* rejected before any query.
C20_Witness ==
    /\ response.op = "overview"
    /\ response.start = Some([text |-> "date", day |-> 1])
    /\ response.end = Some([text |-> "date", day |-> 0])
    /\ response.status = 400
    /\ response.queries = 0

\* ---------------------------------------------------------------- C21
\* C21: title normalisation is idempotent: for every process name and every
\* raw title, normalising the normalised title again returns it unchanged.
C21_NormalizeIdempotent ==
    response.op = "normalize_window_title" => response.twice = response.once

\* The same for the titles of an absent process, which are only stripped of
\* the whitespace around them.
C21_IdempotentWithoutProcess ==
    (response.op = "normalize_window_title" /\ response.process_name = None)
    => response.twice = response.once

\* ---------------------------------------------------------------- C22
\* C22: GET status reports collector_running = true exactly when a collector
\* thread is alive, after any sequence of start and stop calls, a stop whose
\* join timed out and a thread that died from an error included.
C22_StatusAgreesWithThread ==
    response.op = "status" =>
        (response.collector_running <=> response.alive # {})

\* The direction that holds: when status reports a running collector, the
\* thread the runner holds is alive.
C22_RunningImpliesAlive ==
    response.op = "status" =>
        (response.collector_running => response.alive # {})

\* ---------------------------------------------------------------- C29
\* C29: at most one collector thread of a CollectorRunner is alive at any
\* time, under every interleaving of start and stop calls.
C29_AtMostOneCollector == Cardinality(AliveWorkers) <= 1

\* The part that holds: start while the runner's thread is alive creates
\* nothing.
C29_StartWhileRunningCreatesNothing ==
    [][\A t \in Threads :
         (RunnerStart(t) /\ is_running(runner, workers)) => workers' = workers]_vars

\* ---------------------------------------------------------------- C23
\* The number of rows of the store that hold the event.
RowCount(event) ==
    Cardinality({ i \in 1..Len(store) : store[i] = EventRow(event) })

\* C23: each closed event is persisted exactly once: whatever flushes were
\* made and failed, no closed event is two rows of the store, and after a
\* successful forced flush every closed event is exactly one row.
C23_PersistedExactlyOnce ==
    /\ \A i \in 1..Len(closed) : RowCount(closed[i]) <= 1
    /\ (pc = "done" /\ last_op = "force_flushed") =>
           \A i \in 1..Len(closed) : RowCount(closed[i]) = 1

\* The part that holds: after a successful forced flush no closed event is
\* missing from the store, and the store holds nothing but closed events.
C23_PersistedAtLeastOnce ==
    /\ (pc = "done" /\ last_op = "force_flushed") =>
           \A i \in 1..Len(closed) : RowCount(closed[i]) >= 1
    /\ \A j \in 1..Len(store) :
           \E i \in 1..Len(closed) : store[j] = EventRow(closed[i])

\* ---------------------------------------------------------------- C24
\* C24: in every reachable state, every event the collector holds or has
\* written (the open event, every buffered event, every persisted row)
\* satisfies end_time >= start_time, for every sequence of timestamps read
\* from the clock.
C24_EndNotBeforeStart ==
    /\ current_event # None =>
           The(current_event).end_time >= The(current_event).start_time
    /\ \A i \in 1..Len(pending) : pending[i].end_time >= pending[i].start_time
    /\ \A i \in 1..Len(store) : store[i].end_time >= store[i].start_time

\* ---------------------------------------------------------------- C25
\* C25: once an event is closed and in the buffer, no later observe,
\* flush_if_needed or flush changes any of its fields: the buffer is always
\* the last closed events with the fields they were closed with, every
\* persisted row is a closed event as it was closed, and the open event is
\* never an element of the buffer.
C25_ClosedEventsImmutable ==
    /\ Len(pending) <= Len(closed)
    /\ pending = SubSeq(closed, Len(closed) - Len(pending) + 1, Len(closed))
    /\ \A j \in 1..Len(store) :
           \E i \in 1..Len(closed) : store[j] = EventRow(closed[i])
    /\ current_event # None =>
           \A i \in 1..Len(pending) : pending[i] # The(current_event)

\* A closed event is in the buffer, flush_if_needed has left it there, and a
\* later sample has advanced the end_time of the open event.
C25_Witness ==
    /\ pending # << >>
    /\ current_event # None
    /\ The(current_event).end_time > The(current_event).start_time
    /\ last_op = "extend"

\* ---------------------------------------------------------------- C26
\* The fields of an event.
EventFields == {"start_time", "end_time", "process_name", "window_title", "is_idle"}

\* A successful PATCH leaves every field the request does not supply, and
\* every other row, as it was.
OnlyTargetFieldsChange ==
    /\ \A k \in EventFields \ Supplied : TargetAfter[k] = TargetBefore[k]
    /\ Len(store) = Len(response.before)
    /\ \A i \in 1..Len(store) :
           i # response.event_id => store[i] = response.before[i]

\* C26: a successful PATCH changes only the fields present in the request:
\* every field it does not supply keeps its stored value, no other row is
\* modified, and a field supplied as null is not treated as a field that is
\* not supplied: the null is what the event then holds.
C26_OnlySuppliedFieldsChange ==
    (PatchAnswered /\ response.status = 200) =>
      /\ OnlyTargetFieldsChange
      /\ \A k \in Supplied :
             The(response.updates[k]) = None =>
                 /\ k \in {"process_name", "window_title"}
                 /\ TargetAfter[k] = None

\* The part that holds: the fields not supplied and the other rows are kept,
\* and a null process_name or window_title is written.
C26_UnsuppliedFieldsKept ==
    (PatchAnswered /\ response.status = 200) =>
      /\ OnlyTargetFieldsChange
      /\ \A k \in Supplied \cap {"process_name", "window_title"} :
             The(response.updates[k]) = None => TargetAfter[k] = None

\* ---------------------------------------------------------------- C27
\* The daily summary has been printed from a non-empty answer.
SummaryPrinted == response.op = "print_daily_summary" /\ response.rows # << >>

\* The label the rollups give the process of a row.
LabelOf(row) ==
    IF row.process_name = None THEN "Unknown" ELSE The(row.process_name)

\* The seconds of the active rows whose key is the given one.
ActiveSecondsOf(rows, key, KeyOf(_)) ==
    SumSeconds(SelectSeq(rows, LAMBDA row : row.is_idle = 0 /\ KeyOf(row) = key))

\* The position of the first active row with the given key.
FirstRow(rows, key, KeyOf(_)) ==
    LET hit == { i \in 1..Len(rows) : rows[i].is_idle = 0 /\ KeyOf(rows[i]) = key }
    IN  CHOOSE i \in hit : \A j \in hit : i <= j

\* A rollup of rows: one item per key of the active rows and none else,
\* with the summed seconds of the key's active rows, in descending order of
\* seconds, keys with equal seconds in the order of their first appearance.
IsRollup(items, rows, KeyOf(_), ItemKey(_)) ==
    /\ \A i \in 1..Len(items) :
           /\ \E j \in 1..Len(rows) :
                  rows[j].is_idle = 0 /\ KeyOf(rows[j]) = ItemKey(items[i])
           /\ items[i].seconds = ActiveSecondsOf(rows, ItemKey(items[i]), KeyOf)
    /\ \A j \in 1..Len(rows) :
           rows[j].is_idle = 0 =>
               \E i \in 1..Len(items) : ItemKey(items[i]) = KeyOf(rows[j])
    /\ \A i, k \in 1..Len(items) :
           i < k =>
               /\ ItemKey(items[i]) # ItemKey(items[k])
               /\ items[i].seconds >= items[k].seconds
               /\ items[i].seconds = items[k].seconds =>
                      FirstRow(rows, ItemKey(items[i]), KeyOf)
                          < FirstRow(rows, ItemKey(items[k]), KeyOf)

\* C27: the per-process and per-window rollups hold only active rows, label
\* an absent process "Unknown", are sorted by seconds in descending order and
\* keep keys with equal seconds in the order of their first appearance in the
\* rows.
C27_RollupsSortedStable ==
    SummaryPrinted =>
      /\ IsRollup(response.by_process, response.rows, LabelOf,
                  LAMBDA item : item.process)
      /\ IsRollup(response.top_windows, response.rows,
                  LAMBDA row : <<LabelOf(row), row.window_title>>,
                  LAMBDA item : <<item.process, item.window>>)

\* The rows hold an idle row and a row without a process, and two processes
\* have equal seconds.
C27_Witness ==
    /\ SummaryPrinted
    /\ \E j \in 1..Len(response.rows) : response.rows[j].is_idle = 1
    /\ \E i \in 1..Len(response.by_process) :
           response.by_process[i].process = "Unknown"
    /\ \E i, k \in 1..Len(response.by_process) :
           /\ i < k
           /\ response.by_process[i].seconds = response.by_process[k].seconds

\* ---------------------------------------------------------------- C28
\* The ids of the stored events whose start_time is in day D:
\* D 00:00 <= start_time < (D + 1) 00:00.
StartingIn(D) ==
    { i \in 1..Len(store) :
        /\ D * TicksPerDay <= store[i].start_time
        /\ store[i].start_time < (D + 1) * TicksPerDay }

\* The summed full durations of the stored events with these ids.
RECURSIVE DurationOf(_)
DurationOf(ids) ==
    IF ids = {} THEN 0
    ELSE LET i == CHOOSE i \in ids : TRUE
         IN  (store[i].end_time - store[i].start_time) + DurationOf(ids \ {i})

\* C28: day attribution is a partition by start_time: the events of day D
\* are exactly the stored events that start in D, each once and with its
\* stored bounds, the summary of D adds up their full durations also when
\* they end after midnight, and every stored event is selected by the query
\* of exactly one day.
C28_DayPartitionByStart ==
    /\ (response.op = "events" /\ response.status = 200) =>
          /\ { response.events[k].id : k \in 1..Len(response.events) }
                 = StartingIn(response.date)
          /\ Len(response.events) = Cardinality(StartingIn(response.date))
          /\ \A k \in 1..Len(response.events) :
                 /\ response.events[k].start_time
                        = store[response.events[k].id].start_time
                 /\ response.events[k].end_time
                        = store[response.events[k].id].end_time
    /\ (response.op = "summary" /\ response.status = 200) =>
          response.totals.active_seconds + response.totals.idle_seconds
              = DurationOf(StartingIn(response.date))
    /\ \A i \in 1..Len(store) :
          Cardinality({ D \in Days :
              \E k \in 1..Len(EventsOfDay(store, D, 1)) :
                  EventsOfDay(store, D, 1)[k].id = i }) = 1

\* The events of a day are answered, one of them ends after the midnight
\* that ends the day, and the store holds an event of the next day.
C28_Witness ==
    /\ response.op = "events"
    /\ response.status = 200
    /\ \E k \in 1..Len(response.events) :
           response.events[k].end_time > (response.date + 1) * TicksPerDay
    /\ StartingIn(response.date + 1) # {}

\* ---------------------------------------------------------------- C30
\* Every event closed so far is a row of the store.
AllClosedPersisted == \A i \in 1..Len(closed) : RowCount(closed[i]) >= 1

SettingsBuilt == response # NoResponse /\ response.op \in {"collect", "web"}

\* C31: for every CollectorSettings built by from_intervals, flush_interval
\* equals 6 x sample_interval when no flush interval is given, and
\* flush_interval is never below 30 seconds, whether it is defaulted or
\* supplied explicitly (e.g. through the --flush-interval option).
C31_FlushDefaultAndFloor ==
    SettingsBuilt =>
      /\ response.flush_seconds = None =>
           response.settings.flush_interval
             = FlushFactor * response.settings.sample_interval
      /\ response.settings.flush_interval >= timedelta_seconds(FlushFloor)

\* What from_intervals does: a flush interval that is not given is
\* 6 x sample_interval or 30 seconds, whichever is more; one that is given
\* is taken as it is.
C31_DefaultIsSixfoldOrFloor ==
    SettingsBuilt =>
      IF response.flush_seconds = None
      THEN response.settings.flush_interval
             = Max(FlushFactor * response.settings.sample_interval,
                   timedelta_seconds(FlushFloor))
      ELSE response.settings.flush_interval
             = timedelta_seconds(The(response.flush_seconds))

\* The two halves of C31 one at a time: the defaulted flush interval is not
\* below 30 seconds, and a given one is.
C31_DefaultNotBelowFloor ==
    SettingsBuilt /\ response.flush_seconds = None =>
      response.settings.flush_interval >= timedelta_seconds(FlushFloor)

C31_GivenNotBelowFloor ==
    SettingsBuilt /\ response.flush_seconds # None =>
      response.settings.flush_interval >= timedelta_seconds(FlushFloor)

C31_DefaultIsSixfold ==
    SettingsBuilt /\ response.flush_seconds = None =>
      response.settings.flush_interval
        = FlushFactor * response.settings.sample_interval

====
